---- MODULE Spec2Model ----
(***************************************************************************)
(* A model of milkzmq: the ZeroMQ image-stream server (milkzmqServer.hpp:  *)
(* the request router serverThreadExec and one imageThreadExec per         *)
(* published stream) and client (milkzmqClient.hpp: one imageThreadExec    *)
(* per subscribed stream), together with the shared-memory source the      *)
(* server reads and the transport between the two.                         *)
(***************************************************************************)
EXTENDS Integers, Sequences, FiniteSets, TLC

(***************************************************************************)
(* Bounds of the model.                                                    *)
(***************************************************************************)
\* frames a producer writes into one incarnation of the source
MaxCnt0 == 1
\* re-creations of the source by its producer
MaxCreate == 1
\* receive timeouts of one subscriber
MaxTimeouts == 1
\* raisings of the source-reset signal (SIGSEGV/SIGBUS)
MaxRestart == 1
\* connections one subscriber opens
MaxConn == 2

(***************************************************************************)
(* Program constants.                                                      *)
(***************************************************************************)
\* the fixed size of the wire header
headerSize == 256

\* the subscriber workers (one client imageThreadExec each)
Subs == {"A", "B"}
\* stream names a subscriber may be configured with
StreamNames == {"cam0", "cam1"}
\* the streams the server runs an image thread for
Published == {"cam0"}
\* image widths a producer may create the source with
Shapes == {32, 64}

\* routing ids: one per connection a subscriber opens
Rids == Subs \X (1..MaxConn)
NoRid == <<"none", 0>>

\* the empty map
EmptyMap == [x \in {} |-> FALSE]

VARIABLES
  CPPZMQ_431,      \* TRUE: built against cppzmq >= 4.3.1, FALSE: the older API
  m_server,        \* the server socket exists (m_server != nullptr)
  m_timeToDie,     \* milkzmqServer::m_timeToDie
  m_restart,       \* milkzmqServer::m_restart
  m_requestorMap,  \* routing id -> (stream name -> request-received flag)
  m_mapMutex,      \* owner of m_mapMutex: "free", "router" or a stream name
  srvPc,           \* position of serverThreadExec
  request,         \* the request serverThreadExec holds: <<routing id, name>>
  image,           \* per stream: the shared-memory source
  imPc,            \* per stream: position of imageThreadExec
  opened,          \* per stream: the source handle is open
  lastCnt0,        \* per stream: last-seen frame counter
  last_snx,        \* per stream: shape captured at open
  rids,            \* per stream: recipients of this cycle
  rid,             \* per stream: index into rids
  cnt0,            \* per stream: the counter read for this cycle
  msg,             \* per stream: the message buffer (header + payload)
  sendResult,      \* per stream: what the last send call did
  nRestart,        \* raisings of the source-reset signal so far
  imageName,       \* per subscriber: the stream it requests
  cliTimeToDie,    \* per subscriber: milkzmqClient::m_timeToDie of its process
  subPc,           \* per subscriber: position of its imageThreadExec
  conn,            \* per subscriber: connections opened so far
  reqQ,            \* per subscriber: requests on the wire to the server
  inQ,             \* per subscriber: messages on the wire to its open socket
  sink,            \* per subscriber: the local image it writes
  connected,       \* per subscriber: the connected flag
  outstanding,     \* per subscriber: requests sent minus messages received,
                   \* on the current connection
  nTimeouts,       \* per subscriber: receive timeouts on the current connection
  hdr,             \* the values a publisher writes into a header
  raw_image,       \* the bytes of the header on the wire
  decoded,         \* the values a subscriber read from raw_image
  now,             \* the clock get_curr_time() reads, in ticks
  lastCheck,       \* per stream: time of the last admitted fps check
  lastSend,        \* per stream: time of the last dispatch
  delta,           \* per stream: the integrator's correction, in
                   \* ticks multiplied by FpsGainInv
  unserved         \* history: per routing id and stream, requests the router
                   \* has processed minus messages sent to the id for the stream

srvVars == <<m_server, m_timeToDie, m_restart, m_requestorMap, m_mapMutex,
             srvPc, request, nRestart>>
imVars == <<imPc, opened, lastCnt0, last_snx, rids, rid, cnt0, msg, sendResult>>
subVars == <<imageName, cliTimeToDie, subPc, conn, reqQ, inQ, sink, connected,
             outstanding, nTimeouts>>
hdrVars == <<hdr, raw_image, decoded>>
govVars == <<now, lastCheck, lastSend, delta>>
vars == <<CPPZMQ_431, hdrVars, govVars, srvVars, image, imVars, subVars, unserved>>

(***************************************************************************)
(* The header. A value is the sequence of the bytes of its object, least   *)
(* significant first; the header is a function from byte offsets to bytes. *)
(***************************************************************************)
\* the size of the name field
nameSize == 128

\* the offsets of the fields
typeOffset == 128
size0Offset == typeOffset + 1
size1Offset == size0Offset + 4
cnt0Offset == size1Offset + 4
tv_secOffset == cnt0Offset + 8
tv_nsecOffset == tv_secOffset + 8
xrifDifferenceOffset == tv_nsecOffset + 8
xrifReorderOffset == xrifDifferenceOffset + 2
xrifCompressOffset == xrifReorderOffset + 2
xrifSizeOffset == xrifCompressOffset + 2

\* no header
NoHeader == [name |-> <<>>]

\* the low w bytes of v: an assignment to an object of w bytes
Narrow(v, w) == SubSeq(v, 1, w)

\* an unsigned v converted to an object of w bytes
ZeroExtend(v, w) == v \o [i \in 1..(w - Len(v)) |-> 0]

\* a signed v converted to an object of w bytes
SignExtend(v, w) ==
  v \o [i \in 1..(w - Len(v)) |-> IF v[Len(v)] >= 128 THEN 255 ELSE 0]

\* buffer m after *((T *)(m + off)) = v, v an object of type T
Store(m, off, v) ==
  [i \in DOMAIN m |->
     IF i >= off /\ i < off + Len(v) THEN v[i - off + 1] ELSE m[i]]

\* *((T *)(m + off)), T a type of w bytes
Load(m, off, w) == [i \in 1..w |-> m[off + i - 1]]

\* buffer m after snprintf(m, nameSize, "%s", name): at most nameSize - 1
\* characters and the terminating 0
StoreName(m, name) ==
  LET k == IF Len(name) < nameSize THEN Len(name) ELSE nameSize - 1
  IN  Store(m, 0, SubSeq(name, 1, k) \o <<0>>)

(***************************************************************************)
(* Helpers.                                                                *)
(***************************************************************************)
\* the routing id of subscriber s's current connection
RidOf(s) == <<s, conn[s]>>

\* the settings of the codec selectors (difference, reorder, compress) a
\* server can be given: noCompression() and defaultCompression()
XrifMethods == {"none", "default"}

\* the selectors of the server: the members' initial values, which the server
\* program leaves as they are
m_xrifMethod == "none"

\* no message
NoMsg == [size |-> 0, nx |-> 0, cnt0 |-> 0, xrifSize |-> 0, gen |-> 0, xrif |-> "none"]

\* the 1-byte message sent to tell a subscriber to hang up
HangupMsg == [size |-> 1, nx |-> 0, cnt0 |-> 0, xrifSize |-> 0, gen |-> 0, xrif |-> "none"]

\* the sink before the first frame: not created; xrif is the configuration
\* of the decoder, which is set before it is first used
NoSink == [opened |-> FALSE, nx |-> 0, cnt0 |-> -1, sem |-> 0, gen |-> -1, xrif |-> "none"]

\* all orders in which a set can be listed
Orders(S) ==
  {q \in [1..Cardinality(S) -> S] : \A i, j \in 1..Cardinality(S) : q[i] = q[j] => i = j}

\* m_requestorMap[r][n] = v, creating the entries as operator[] does
MapSet(m, r, n, v) ==
  LET old == IF r \in DOMAIN m THEN m[r] ELSE EmptyMap
      new == [y \in DOMAIN old \cup {n} |-> IF y = n THEN v ELSE old[y]]
  IN  [x \in DOMAIN m \cup {r} |-> IF x = r THEN new ELSE m[x]]

\* m_requestorMap.erase(r)
MapErase(m, r) == [x \in DOMAIN m \ {r} |-> m[x]]

\* the routing ids whose flag for stream n is set
Armed(m, n) == {r \in DOMAIN m : n \in DOMAIN m[r] /\ m[r][n]}

\* the socket of routing id r is open at its subscriber
Live(r) == r[2] = conn[r[1]] /\ subPc[r[1]] \in {"recv", "teardown"}

(***************************************************************************)
(* The shared-memory source (ImageStreamIO), driven by its producer.       *)
(***************************************************************************)
\* the producer writes a frame: cnt0++ and a semaphore post
SrcWrite(n) ==
  /\ image[n].state = "ready"
  /\ image[n].cnt0 < MaxCnt0
  /\ image' = [image EXCEPT ![n].cnt0 = @ + 1]
  /\ UNCHANGED <<CPPZMQ_431, unserved, hdrVars, govVars, srvVars, imVars, subVars>>

\* the producer exits and cleans up: the semaphores are gone (sem <= 0)
SrcDestroy(n) ==
  /\ image[n].state = "ready"
  /\ image[n].gen < MaxCreate
  /\ image' = [image EXCEPT ![n].state = "absent"]
  /\ UNCHANGED <<CPPZMQ_431, unserved, hdrVars, govVars, srvVars, imVars, subVars>>

\* a producer creates the source again: the file exists, cnt0 = 0, the
\* semaphores are not yet initialised
SrcCreate(n) ==
  /\ image[n].state = "absent"
  /\ \E snx \in Shapes :
       image' = [image EXCEPT ![n] = [state |-> "notready", cnt0 |-> 0,
                                      snx |-> snx, gen |-> image[n].gen + 1]]
  /\ UNCHANGED <<CPPZMQ_431, unserved, hdrVars, govVars, srvVars, imVars, subVars>>

\* the producer finishes its start-up: sem > 0
SrcReady(n) ==
  /\ image[n].state = "notready"
  /\ image' = [image EXCEPT ![n].state = "ready"]
  /\ UNCHANGED <<CPPZMQ_431, unserved, hdrVars, govVars, srvVars, imVars, subVars>>

(***************************************************************************)
(* Signals to the server process.                                          *)
(***************************************************************************)
\* SIGTERM/SIGINT/SIGQUIT: sigHandler sets m_timeToDie
SigTerm ==
  /\ ~m_timeToDie
  /\ m_timeToDie' = TRUE
  /\ UNCHANGED <<CPPZMQ_431, unserved, hdrVars, govVars, m_server, m_restart, m_requestorMap, m_mapMutex,
                 srvPc, request, nRestart, image, imVars, subVars>>

\* SIGSEGV/SIGBUS: sigSegvHandler sets m_restart
SigSegv ==
  /\ nRestart < MaxRestart
  /\ m_restart' = TRUE
  /\ nRestart' = nRestart + 1
  /\ UNCHANGED <<CPPZMQ_431, unserved, hdrVars, govVars, m_server, m_timeToDie, m_requestorMap, m_mapMutex,
                 srvPc, request, image, imVars, subVars>>

(***************************************************************************)
(* serverThreadExec: the request router.                                   *)
(***************************************************************************)
\* create and bind the server socket
SrvInit ==
  /\ srvPc = "init"
  /\ m_server' = TRUE
  /\ srvPc' = "recv"
  /\ UNCHANGED <<CPPZMQ_431, unserved, hdrVars, govVars, m_timeToDie, m_restart, m_requestorMap, m_mapMutex,
                 request, nRestart, image, imVars, subVars>>

\* m_server->recv(request) returns a request of subscriber s
SrvRecv(s) ==
  /\ srvPc = "recv"
  /\ reqQ[s] # <<>>
  /\ request' = Head(reqQ[s])
  /\ reqQ' = [reqQ EXCEPT ![s] = Tail(@)]
  /\ srvPc' = "lock"
  /\ UNCHANGED <<CPPZMQ_431, unserved, hdrVars, govVars, m_server, m_timeToDie, m_restart, m_requestorMap,
                 m_mapMutex, nRestart, image, imVars, imageName, cliTimeToDie,
                 subPc, conn, inQ, sink, connected, outstanding, nTimeouts>>

\* the loop ends: m_timeToDie at the loop head, or recv interrupted with it set
SrvExit ==
  /\ srvPc = "recv"
  /\ m_timeToDie
  /\ srvPc' = "done"
  /\ UNCHANGED <<CPPZMQ_431, unserved, hdrVars, govVars, m_server, m_timeToDie, m_restart, m_requestorMap,
                 m_mapMutex, request, nRestart, image, imVars, subVars>>

\* std::lock_guard<std::mutex> guard(m_mapMutex)
SrvLock ==
  /\ srvPc = "lock"
  /\ m_mapMutex = "free"
  /\ m_mapMutex' = "router"
  /\ srvPc' = "set"
  /\ UNCHANGED <<CPPZMQ_431, unserved, hdrVars, govVars, m_server, m_timeToDie, m_restart, m_requestorMap,
                 request, nRestart, image, imVars, subVars>>

\* a variant of Routed: the request arms every entry of the map
RoutedAll(m, r, n) ==
  LET a == MapSet(m, r, n, TRUE) IN [x \in DOMAIN a |-> [y \in DOMAIN a[x] |-> TRUE]]

\* the map after the router has processed the request <<r, n>>
Routed(m, r, n) == MapSet(m, r, n, TRUE)

\* m_requestorMap[routing_id][reqShmim] = true, and the guard's scope ends
SrvSet ==
  /\ srvPc = "set"
  /\ m_requestorMap' = Routed(m_requestorMap, request[1], request[2])
  /\ m_mapMutex' = "free"
  /\ request' = <<NoRid, "">>
  /\ srvPc' = "recv"
  /\ unserved' = [unserved EXCEPT ![request[1]][request[2]] = @ + 1]
  /\ UNCHANGED <<CPPZMQ_431, hdrVars, govVars, m_server, m_timeToDie, m_restart, nRestart,
                 image, imVars, subVars>>

(***************************************************************************)
(* imageThreadExec of the server: one per published stream n.              *)
(***************************************************************************)
\* image.md[0].sem > 0
SemOk(n) == image[n].state = "ready"

\* xrif->compressed_size after xrif_encode of one snx-wide slice: the codec
\* is configured per shape; its output length is modelled as the raw length
CompressedSize(snx) == snx

\* m_timeToDie || m_restart
ExitSignal == m_timeToDie \/ m_restart

\* the locals of one pass of the streaming loop once the pass is over: each
\* (rids, rid, cnt0, the content of msg) is rewritten before it is read again
PassOver(n) ==
  /\ rids' = [rids EXCEPT ![n] = <<>>]
  /\ rid' = [rid EXCEPT ![n] = 1]
  /\ cnt0' = [cnt0 EXCEPT ![n] = 0]
  /\ msg' = [msg EXCEPT ![n] = NoMsg]

\* while(m_server == nullptr) sleep(1)
ImWaitServer(n) ==
  /\ imPc[n] = "waitServer"
  /\ m_server
  /\ imPc' = [imPc EXCEPT ![n] = "outer"]
  /\ UNCHANGED <<CPPZMQ_431, unserved, hdrVars, govVars, srvVars, image, opened, lastCnt0, last_snx, rids,
                 rid, cnt0, msg, sendResult, subVars>>

\* while(!m_timeToDie): the body starts with opened = false, m_restart = false
ImOuterEnter(n) ==
  /\ imPc[n] = "outer"
  /\ ~m_timeToDie
  /\ opened' = [opened EXCEPT ![n] = FALSE]
  /\ m_restart' = FALSE
  /\ imPc' = [imPc EXCEPT ![n] = "opening"]
  /\ UNCHANGED <<CPPZMQ_431, unserved, hdrVars, govVars, m_server, m_timeToDie, m_requestorMap, m_mapMutex,
                 srvPc, request, nRestart, image, lastCnt0, last_snx, rids,
                 rid, cnt0, msg, sendResult, subVars>>

\* while(!m_timeToDie) fails: on to the hangup messages
ImOuterExit(n) ==
  /\ imPc[n] = "outer"
  /\ m_timeToDie
  /\ imPc' = [imPc EXCEPT ![n] = "hLookupLock"]
  /\ UNCHANGED <<CPPZMQ_431, unserved, hdrVars, govVars, srvVars, image, opened, lastCnt0, last_snx, rids,
                 rid, cnt0, msg, sendResult, subVars>>

\* a variant of ImOpenRetry: a source that is not there ends the thread
ImOpenGiveUp(n) ==
  /\ imPc[n] = "opening"
  /\ ~ExitSignal
  /\ ~SemOk(n)
  /\ imPc' = [imPc EXCEPT ![n] = "returned"]
  /\ UNCHANGED <<CPPZMQ_431, unserved, hdrVars, govVars, srvVars, image, opened, lastCnt0, last_snx, rids,
                 rid, cnt0, msg, sendResult, subVars>>

\* the source is not there yet, or its semaphores are not: sleep and retry
ImOpenRetry(n) ==
  /\ imPc[n] = "opening"
  /\ ~ExitSignal
  /\ ~SemOk(n)
  /\ UNCHANGED vars

\* ImageStreamIO_openIm succeeded with sem > 0: opened = true ends the open
\* loop
ImOpenOk(n) ==
  /\ imPc[n] = "opening"
  /\ ~ExitSignal
  /\ SemOk(n)
  /\ opened' = [opened EXCEPT ![n] = TRUE]
  /\ imPc' = [imPc EXCEPT ![n] = "opened"]
  /\ UNCHANGED <<CPPZMQ_431, unserved, hdrVars, govVars, srvVars, image, lastCnt0, last_snx, rids, rid,
                 cnt0, msg, sendResult, subVars>>

\* if(m_timeToDie || !opened) return, reached with opened true: the thread
\* returns with the source still open
ImOpenedReturn(n) ==
  /\ imPc[n] = "opened"
  /\ m_timeToDie
  /\ imPc' = [imPc EXCEPT ![n] = "returned"]
  /\ UNCHANGED <<CPPZMQ_431, unserved, hdrVars, govVars, srvVars, image, opened, lastCnt0, last_snx, rids,
                 rid, cnt0, msg, sendResult, subVars>>

\* past that test: capture the shape, allocate the message, start the
\* governor (lastCheck = lastSend = get_curr_time(), delta = 0), lastCnt0 = -1
ImSetup(n) ==
  /\ imPc[n] = "opened"
  /\ ~m_timeToDie
  /\ last_snx' = [last_snx EXCEPT ![n] = image[n].snx]
  /\ lastCnt0' = [lastCnt0 EXCEPT ![n] = -1]
  /\ lastCheck' = [lastCheck EXCEPT ![n] = now]
  /\ lastSend' = [lastSend EXCEPT ![n] = now]
  /\ delta' = [delta EXCEPT ![n] = 0]
  /\ imPc' = [imPc EXCEPT ![n] = "streaming"]
  /\ UNCHANGED <<CPPZMQ_431, unserved, hdrVars, now, srvVars, image, opened, rids, rid, cnt0, msg,
                 sendResult, subVars>>

\* the open loop ends on a signal with opened false:
\* if(m_timeToDie || !opened) return
ImOpenAbort(n) ==
  /\ imPc[n] = "opening"
  /\ ExitSignal
  /\ imPc' = [imPc EXCEPT ![n] = "returned"]
  /\ UNCHANGED <<CPPZMQ_431, unserved, hdrVars, govVars, srvVars, image, opened, lastCnt0, last_snx, rids,
                 rid, cnt0, msg, sendResult, subVars>>

\* while(!m_timeToDie && !m_restart) fails
ImStreamExit(n) ==
  /\ imPc[n] = "streaming"
  /\ ExitSignal
  /\ imPc' = [imPc EXCEPT ![n] = "closing"]
  /\ UNCHANGED <<CPPZMQ_431, unserved, hdrVars, govVars, srvVars, image, opened, lastCnt0, last_snx, rids,
                 rid, cnt0, msg, sendResult, subVars>>

\* a new frame, but the fps limit says wait: microsleep and continue
ImAdmitReject(n) ==
  /\ imPc[n] = "streaming"
  /\ ~ExitSignal
  /\ image[n].cnt0 # lastCnt0[n]
  /\ UNCHANGED vars

\* a new frame and the fps limit lets it through: on to the lookup
ImAdmit(n) ==
  /\ imPc[n] = "streaming"
  /\ ~ExitSignal
  /\ image[n].cnt0 # lastCnt0[n]
  /\ cnt0' = [cnt0 EXCEPT ![n] = image[n].cnt0]
  /\ imPc' = [imPc EXCEPT ![n] = "lookupLock"]
  /\ UNCHANGED <<CPPZMQ_431, unserved, hdrVars, govVars, srvVars, image, opened, lastCnt0, last_snx, rids,
                 rid, msg, sendResult, subVars>>

\* no new frame and the semaphores are there: microsleep
ImIdle(n) ==
  /\ imPc[n] = "streaming"
  /\ ~ExitSignal
  /\ image[n].cnt0 = lastCnt0[n]
  /\ SemOk(n)
  /\ UNCHANGED vars

\* no new frame and sem <= 0: the producer has cleaned up, break
ImSemLost(n) ==
  /\ imPc[n] = "streaming"
  /\ ~ExitSignal
  /\ image[n].cnt0 = lastCnt0[n]
  /\ ~SemOk(n)
  /\ imPc' = [imPc EXCEPT ![n] = "closing"]
  /\ UNCHANGED <<CPPZMQ_431, unserved, hdrVars, govVars, srvVars, image, opened, lastCnt0, last_snx, rids,
                 rid, cnt0, msg, sendResult, subVars>>

\* std::lock_guard<std::mutex> guard(m_mapMutex) at position from
ImLockAt(n, from, to) ==
  /\ imPc[n] = from
  /\ m_mapMutex = "free"
  /\ m_mapMutex' = n
  /\ imPc' = [imPc EXCEPT ![n] = to]
  /\ UNCHANGED <<CPPZMQ_431, unserved, hdrVars, govVars, m_server, m_timeToDie, m_restart, m_requestorMap,
                 srvPc, request, nRestart, image, opened, lastCnt0, last_snx,
                 rids, rid, cnt0, msg, sendResult, subVars>>

\* a variant of LookupRelease: the guard's scope extends over the dispatch
LookupKeepsGuard(n) == n

\* the owner of m_mapMutex once the scope of the lookup's guard has ended
LookupRelease(n) == "free"

\* a variant of LookupRids without the test of the flag: every routing id
\* that has an entry for stream n
LookupKnown(n) == Orders({r \in DOMAIN m_requestorMap : n \in DOMAIN m_requestorMap[r]})

\* the recipients the lookup collects for stream n: every routing id whose
\* flag for n is set, in the map's iteration order
LookupRids(n) == Orders(Armed(m_requestorMap, n))

\* the map after the lookup for stream n: the lookup only reads
AfterLookup(n) == m_requestorMap

\* the lookup under the guard at position from; none found goes to ifNone
ImLookupAt(n, from, ifNone, ifSome) ==
  /\ imPc[n] = from
  /\ \E q \in LookupRids(n) :
       /\ rids' = [rids EXCEPT ![n] = q]
       /\ imPc' = [imPc EXCEPT ![n] = IF Len(q) = 0 THEN ifNone ELSE ifSome]
       /\ cnt0' = [cnt0 EXCEPT ![n] = IF Len(q) = 0 THEN 0 ELSE @]
  /\ rid' = [rid EXCEPT ![n] = 1]
  /\ m_requestorMap' = AfterLookup(n)
  /\ m_mapMutex' = LookupRelease(n)
  /\ UNCHANGED <<CPPZMQ_431, unserved, hdrVars, govVars, m_server, m_timeToDie, m_restart, srvPc, request,
                 nRestart, image, opened, lastCnt0, last_snx, msg, sendResult,
                 subVars>>

\* a variant of ImLookup without if(rids.size() == 0) continue
ImLookupNoSkip(n) == ImLookupAt(n, "lookup", "prep", "prep")

ImLookupLock(n) == ImLockAt(n, "lookupLock", "lookup")

\* the lookup of a pass; if(rids.size() == 0) continue
ImLookup(n) == ImLookupAt(n, "lookup", "streaming", "prep")

\* if(m_timeToDie || m_restart) break, after the lookup
ImPrepExit(n) ==
  /\ imPc[n] = "prep"
  /\ ExitSignal
  /\ imPc' = [imPc EXCEPT ![n] = "closing"]
  /\ PassOver(n)
  /\ UNCHANGED <<CPPZMQ_431, unserved, hdrVars, govVars, srvVars, image, opened, lastCnt0, last_snx,
                 sendResult, subVars>>

\* a variant of ImShapeChanged: the pass goes on to the encode with the
\* shape captured at open
ImShapeIgnored(n) ==
  /\ imPc[n] = "prep"
  /\ ~ExitSignal
  /\ image[n].snx # last_snx[n]
  /\ cnt0' = [cnt0 EXCEPT ![n] = image[n].cnt0]
  /\ imPc' = [imPc EXCEPT ![n] = "encode"]
  /\ UNCHANGED <<CPPZMQ_431, unserved, hdrVars, govVars, srvVars, image, opened, lastCnt0, last_snx, rids,
                 rid, msg, sendResult, subVars>>

\* the shape differs from the one captured at open: break
ImShapeChanged(n) ==
  /\ imPc[n] = "prep"
  /\ ~ExitSignal
  /\ image[n].snx # last_snx[n]
  /\ imPc' = [imPc EXCEPT ![n] = "closing"]
  /\ PassOver(n)
  /\ UNCHANGED <<CPPZMQ_431, unserved, hdrVars, govVars, srvVars, image, opened, lastCnt0, last_snx,
                 sendResult, subVars>>

\* same shape: cnt0 = image.md[0].cnt0
ImPrep(n) ==
  /\ imPc[n] = "prep"
  /\ ~ExitSignal
  /\ image[n].snx = last_snx[n]
  /\ cnt0' = [cnt0 EXCEPT ![n] = image[n].cnt0]
  /\ imPc' = [imPc EXCEPT ![n] = "encode"]
  /\ UNCHANGED <<CPPZMQ_431, unserved, hdrVars, govVars, srvVars, image, opened, lastCnt0, last_snx, rids,
                 rid, msg, sendResult, subVars>>

\* a variant of BuildMsg whose header carries lastCnt0, the counter of the
\* pass before, in place of the counter of the source
BuildMsgStale(n) ==
  [size     |-> headerSize + CompressedSize(last_snx[n]),
   nx       |-> last_snx[n],
   cnt0     |-> lastCnt0[n],
   xrifSize |-> CompressedSize(last_snx[n]),
   gen      |-> image[n].gen,
   xrif     |-> m_xrifMethod]

\* the message the encode and header construction leave in msg
BuildMsg(n) ==
  [size     |-> headerSize + CompressedSize(last_snx[n]),
   nx       |-> last_snx[n],
   cnt0     |-> image[n].cnt0,
   xrifSize |-> CompressedSize(last_snx[n]),
   gen      |-> image[n].gen,
   xrif     |-> m_xrifMethod]

\* xrif_encode into msg and the header, no exit signal after them; the send
\* loop runs if(rids.size() > 0), else the pass ends with lastCnt0 = cnt0
ImEncode(n) ==
  /\ imPc[n] = "encode"
  /\ ~ExitSignal
  /\ IF Len(rids[n]) > 0
     THEN /\ msg' = [msg EXCEPT ![n] = BuildMsg(n)]
          /\ imPc' = [imPc EXCEPT ![n] = "send"]
          /\ UNCHANGED <<lastCnt0, rids, rid, cnt0>>
     ELSE /\ imPc' = [imPc EXCEPT ![n] = "streaming"]
          /\ lastCnt0' = [lastCnt0 EXCEPT ![n] = cnt0[n]]
          /\ PassOver(n)
  /\ UNCHANGED <<CPPZMQ_431, unserved, hdrVars, govVars, srvVars, image, opened, last_snx, sendResult, subVars>>

\* xrif_encode into msg and the header, then if(m_timeToDie || m_restart) break
ImEncodeExit(n) ==
  /\ imPc[n] = "encode"
  /\ ExitSignal
  /\ imPc' = [imPc EXCEPT ![n] = "closing"]
  /\ PassOver(n)
  /\ UNCHANGED <<CPPZMQ_431, unserved, hdrVars, govVars, srvVars, image, opened, lastCnt0, last_snx,
                 sendResult, subVars>>

\* what m_server->send(frame, dontwait) to routing id r can do: "ok" (the
\* message is queued), "again" (it would block: the call returns false and
\* throws nothing) or "threw" (zmq::error_t: the peer is gone)
SendOutcomes(r) == IF Live(r) THEN {"ok", "again"} ELSE {"ok", "threw"}

\* the message reaches the subscriber's socket when the send queued it and
\* the socket is still open
Deliver(r, m, res) ==
  IF res = "ok" /\ Live(r)
  THEN inQ' = [inQ EXCEPT ![r[1]] = Append(@, m)]
  ELSE inQ' = inQ

\* one send of m to rids[rid] at position from: no exception leads to the
\* guard and the clear (toClear), an exception to the guard and the erase
ImSendAt(n, from, m, toClear, toErase) ==
  /\ imPc[n] = from
  /\ \E res \in SendOutcomes(rids[n][rid[n]]) :
       /\ sendResult' = [sendResult EXCEPT ![n] = res]
       /\ Deliver(rids[n][rid[n]], m, res)
       /\ unserved' = IF res = "ok"
                      THEN [unserved EXCEPT ![rids[n][rid[n]]][n] = @ - 1]
                      ELSE unserved
       /\ imPc' = [imPc EXCEPT ![n] = IF res = "threw" THEN toErase ELSE toClear]
  /\ UNCHANGED <<CPPZMQ_431, hdrVars, govVars, srvVars, image, opened, lastCnt0, last_snx, rids,
                 rid, cnt0, msg, imageName, cliTimeToDie, subPc, conn, reqQ,
                 sink, connected, outstanding, nTimeouts>>

\* a variant of AfterSend: the statement clears the flag of every routing id
\* for the stream
AfterSendAll(n, r, threw) ==
  [x \in DOMAIN m_requestorMap |->
     [y \in DOMAIN m_requestorMap[x] |-> IF y = n THEN FALSE ELSE m_requestorMap[x][y]]]

\* a variant of AfterSend: a send that did not throw leaves the flag set
AfterSendKept(n, r, threw) ==
  IF threw THEN MapErase(m_requestorMap, r) ELSE m_requestorMap

\* the map after the statement under the guard that follows a send to r:
\* the erase in the catch block, the clear otherwise
AfterSend(n, r, threw) ==
  IF threw THEN MapErase(m_requestorMap, r)
           ELSE MapSet(m_requestorMap, r, n, FALSE)

\* the index of the recipient served after recipient i of q; past the end of
\* q the loop is over
NextRid(i, q) == i + 1

\* the statement under the guard after a send, at position from; then the
\* next recipient (toNext), or past the loop (toEnd)
ImUpdateAt(n, from, threw, toNext, toEnd) ==
  /\ imPc[n] = from
  /\ m_requestorMap' = AfterSend(n, rids[n][rid[n]], threw)
  /\ m_mapMutex' = "free"
  /\ sendResult' = [sendResult EXCEPT ![n] = "none"]
  /\ IF NextRid(rid[n], rids[n]) <= Len(rids[n])
     THEN /\ rid' = [rid EXCEPT ![n] = NextRid(@, rids[n])]
          /\ imPc' = [imPc EXCEPT ![n] = toNext]
          /\ UNCHANGED <<lastCnt0, rids, cnt0, msg>>
     ELSE /\ imPc' = [imPc EXCEPT ![n] = toEnd]
          /\ lastCnt0' = [lastCnt0 EXCEPT ![n] = IF toEnd = "streaming" THEN cnt0[n] ELSE @]
          /\ PassOver(n)
  /\ UNCHANGED <<CPPZMQ_431, unserved, hdrVars, govVars, m_server, m_timeToDie, m_restart, srvPc, request,
                 nRestart, image, opened, last_snx, subVars>>

\* the frame is sent to rids[rid]
\* a variant of ImSend: the message is built anew for each recipient
ImSendRebuilt(n) == ImSendAt(n, "send", BuildMsg(n), "clearLock", "eraseLock")

ImSend(n) == ImSendAt(n, "send", msg[n], "clearLock", "eraseLock")

ImClearLock(n) == ImLockAt(n, "clearLock", "clear")

\* m_requestorMap[rids[rid]][imageName] = false; after the last recipient
\* the integrator update and lastCnt0 = cnt0
ImClear(n) == ImUpdateAt(n, "clear", FALSE, "send", "streaming")

\* a variant of ImErase in which the catch block leaves the send loop
ImEraseBreak(n) ==
  /\ imPc[n] = "erase"
  /\ m_requestorMap' = AfterSend(n, rids[n][rid[n]], TRUE)
  /\ m_mapMutex' = "free"
  /\ sendResult' = [sendResult EXCEPT ![n] = "none"]
  /\ imPc' = [imPc EXCEPT ![n] = "streaming"]
  /\ lastCnt0' = [lastCnt0 EXCEPT ![n] = cnt0[n]]
  /\ PassOver(n)
  /\ UNCHANGED <<CPPZMQ_431, unserved, hdrVars, govVars, m_server, m_timeToDie, m_restart, srvPc, request,
                 nRestart, image, opened, last_snx, subVars>>

ImEraseLock(n) == ImLockAt(n, "eraseLock", "erase")

\* m_requestorMap.erase(rids[rid]); after the last recipient as ImClear
ImErase(n) == ImUpdateAt(n, "erase", TRUE, "send", "streaming")

\* past the streaming loop: ImageStreamIO_closeIm, opened = false
ImClose(n) ==
  /\ imPc[n] = "closing"
  /\ opened' = [opened EXCEPT ![n] = FALSE]
  /\ imPc' = [imPc EXCEPT ![n] = "outer"]
  /\ UNCHANGED <<CPPZMQ_431, unserved, hdrVars, govVars, srvVars, image, lastCnt0, last_snx, rids, rid,
                 cnt0, msg, sendResult, subVars>>

\* past the outer loop: the 1-byte hangup to every armed routing id
ImHangupLookupLock(n) == ImLockAt(n, "hLookupLock", "hLookup")

ImHangupLookup(n) == ImLookupAt(n, "hLookup", "done", "hSend")

ImHangupSend(n) == ImSendAt(n, "hSend", HangupMsg, "hClearLock", "hEraseLock")

ImHangupClearLock(n) == ImLockAt(n, "hClearLock", "hClear")

ImHangupClear(n) == ImUpdateAt(n, "hClear", FALSE, "hSend", "done")

ImHangupEraseLock(n) == ImLockAt(n, "hEraseLock", "hErase")

ImHangupErase(n) == ImUpdateAt(n, "hErase", TRUE, "hSend", "done")

(***************************************************************************)
(* imageThreadExec of the client: one per subscriber s.                    *)
(***************************************************************************)
\* SIGTERM/SIGINT/SIGQUIT to the client process of s: its m_timeToDie
CliSigTerm(s) ==
  /\ ~cliTimeToDie[s]
  /\ subPc[s] \in {"outer", "recv", "teardown"}
  /\ cliTimeToDie' = [cliTimeToDie EXCEPT ![s] = TRUE]
  /\ UNCHANGED <<CPPZMQ_431, unserved, hdrVars, govVars, srvVars, image, imVars, imageName, subPc, conn,
                 reqQ, inQ, sink, connected, outstanding, nTimeouts>>

\* the outer loop body up to the inner loop: a new socket (a new routing
\* id), connect, and the initial request
SubConnect(s) ==
  /\ subPc[s] = "outer"
  /\ ~cliTimeToDie[s]
  /\ conn[s] < MaxConn
  /\ conn' = [conn EXCEPT ![s] = @ + 1]
  /\ reqQ' = [reqQ EXCEPT ![s] = Append(@, <<<<s, conn[s] + 1>>, imageName[s]>>)]
  /\ outstanding' = [outstanding EXCEPT ![s] = 1]
  /\ nTimeouts' = [nTimeouts EXCEPT ![s] = 0]
  /\ connected' = [connected EXCEPT ![s] = FALSE]
  /\ subPc' = [subPc EXCEPT ![s] = "recv"]
  /\ UNCHANGED <<CPPZMQ_431, unserved, hdrVars, govVars, srvVars, image, imVars, imageName, cliTimeToDie,
                 inQ, sink>>

\* while(!m_timeToDie) fails: the thread ends
SubExit(s) ==
  /\ subPc[s] = "outer"
  /\ cliTimeToDie[s]
  /\ subPc' = [subPc EXCEPT ![s] = "done"]
  /\ UNCHANGED <<CPPZMQ_431, unserved, hdrVars, govVars, srvVars, image, imVars, imageName, cliTimeToDie,
                 conn, reqQ, inQ, sink, connected, outstanding, nTimeouts>>

\* the receive can time out: ZMQ_RCVTIMEO is set only by the older-API branch
RcvTimeoSet == ~CPPZMQ_431

\* a variant of Resend: a receive timeout sends nothing
ResendNothing(s) == reqQ[s]

\* the requests on the wire after the re-send on a receive timeout
Resend(s) == Append(reqQ[s], <<RidOf(s), imageName[s]>>)

\* recv timed out (EAGAIN): re-send the request and continue
SubTimeout(s) ==
  /\ subPc[s] = "recv"
  /\ inQ[s] = <<>>
  /\ RcvTimeoSet
  /\ nTimeouts[s] < MaxTimeouts
  /\ nTimeouts' = [nTimeouts EXCEPT ![s] = @ + 1]
  /\ reqQ' = [reqQ EXCEPT ![s] = Resend(s)]
  /\ outstanding' = [outstanding EXCEPT ![s] = @ + Len(reqQ'[s]) - Len(reqQ[s])]
  /\ UNCHANGED <<CPPZMQ_431, unserved, hdrVars, govVars, srvVars, image, imVars, imageName, cliTimeToDie,
                 subPc, conn, inQ, sink, connected>>

\* a received message is taken for the hangup: if(msg.size() <= headerSize)
TooShort(m) == m.size <= headerSize

\* the payload length the header claims is the length that came with it
PayloadConsistent(m) == m.xrifSize = m.size - headerSize

\* the sink after a frame with header m is processed: (re)created when the
\* shape differs from the local nx, cnt0 written, the semaphores posted
\* (ImageStreamIO caps a semaphore at 1); gen records the incarnation of the
\* source the frame was taken from; the decoder is configured from the
\* header's selectors inside the branch that re-creates the sink, and is left
\* as it is otherwise
SinkAfterFrame(k, m) ==
  [opened |-> TRUE, nx |-> m.nx, cnt0 |-> m.cnt0, sem |-> 1, gen |-> m.gen,
   xrif |-> IF k.nx # m.nx THEN m.xrif ELSE k.xrif]

\* where the thread is after processing a frame: reading xrifSize bytes past
\* the end of the received message is undefined (it may crash or go on)
AfterFrame(m) == IF PayloadConsistent(m) THEN {"recv"} ELSE {"recv", "crashed"}

\* a variant of Rerequest: the request that follows a frame is sent twice
RerequestTwice(s) ==
  Append(Append(reqQ[s], <<RidOf(s), imageName[s]>>), <<RidOf(s), imageName[s]>>)

\* the requests on the wire after the request that follows a processed frame
Rerequest(s) == Append(reqQ[s], <<RidOf(s), imageName[s]>>)

\* recv returned a message: one pass of the inner loop body
SubRecv(s) ==
  /\ subPc[s] = "recv"
  /\ inQ[s] # <<>>
  /\ inQ' = [inQ EXCEPT ![s] = Tail(@)]
  /\ connected' = [connected EXCEPT ![s] = TRUE]
  /\ LET m == Head(inQ[s]) IN
     IF TooShort(m)
     THEN /\ subPc' = [subPc EXCEPT ![s] = "teardown"]
          /\ outstanding' = [outstanding EXCEPT ![s] = @ - 1]
          /\ UNCHANGED <<sink, reqQ>>
     ELSE /\ sink' = [sink EXCEPT ![s] = SinkAfterFrame(@, m)]
          /\ \E to \in AfterFrame(m) :
               /\ subPc' = [subPc EXCEPT ![s] = to]
               /\ reqQ' = [reqQ EXCEPT ![s] = IF to = "recv" THEN Rerequest(s) ELSE @]
               /\ outstanding' = [outstanding EXCEPT ![s] =
                                    @ - 1 + Len(reqQ'[s]) - Len(reqQ[s])]
  /\ UNCHANGED <<CPPZMQ_431, unserved, hdrVars, govVars, srvVars, image, imVars, imageName, cliTimeToDie,
                 conn, nTimeouts>>

\* a variant of SubStop: the receive is not abandoned when the process is
\* told to stop
SubStopIgnored(s) ==
  /\ subPc[s] = "recv"
  /\ cliTimeToDie[s]
  /\ UNCHANGED vars

\* m_timeToDie seen at the inner loop head or after an interrupted recv
SubStop(s) ==
  /\ subPc[s] = "recv"
  /\ cliTimeToDie[s]
  /\ subPc' = [subPc EXCEPT ![s] = "teardown"]
  /\ UNCHANGED <<CPPZMQ_431, unserved, hdrVars, govVars, srvVars, image, imVars, imageName, cliTimeToDie,
                 conn, reqQ, inQ, sink, connected, outstanding, nTimeouts>>

\* recv throws (an error other than the timeout): control is in the catch
\* block
SubRecvThrows(s) ==
  /\ subPc[s] = "recv"
  /\ subPc' = [subPc EXCEPT ![s] = "caught"]
  /\ UNCHANGED <<CPPZMQ_431, unserved, hdrVars, govVars, srvVars, image, imVars, imageName, cliTimeToDie,
                 conn, reqQ, inQ, sink, connected, outstanding, nTimeouts>>

\* a variant of SubCaught: the exception is swallowed and the loop goes on
SubCaughtSwallowed(s) ==
  /\ subPc[s] = "caught"
  /\ subPc' = [subPc EXCEPT ![s] = "recv"]
  /\ UNCHANGED <<CPPZMQ_431, unserved, hdrVars, govVars, srvVars, image, imVars, imageName, cliTimeToDie,
                 conn, reqQ, inQ, sink, connected, outstanding, nTimeouts>>

\* catch(...): if(m_timeToDie) break; otherwise throw: the exception leaves
\* the thread function and the process is terminated
SubCaught(s) ==
  /\ subPc[s] = "caught"
  /\ subPc' = [subPc EXCEPT ![s] = IF cliTimeToDie[s] THEN "teardown" ELSE "terminated"]
  /\ UNCHANGED <<CPPZMQ_431, unserved, hdrVars, govVars, srvVars, image, imVars, imageName, cliTimeToDie,
                 conn, reqQ, inQ, sink, connected, outstanding, nTimeouts>>

\* what is left of the requests on the wire when the socket closes with
\* ZMQ_LINGER 0: those already handed to the network stay, the rest drop
AfterClose(q) == {q, <<>>}

\* past the inner loop: subscriber.close(), the sink closed, the locals reset
SubTeardown(s) ==
  /\ subPc[s] = "teardown"
  /\ inQ' = [inQ EXCEPT ![s] = <<>>]
  /\ \E q \in AfterClose(reqQ[s]) : reqQ' = [reqQ EXCEPT ![s] = q]
  /\ sink' = [sink EXCEPT ![s].opened = FALSE, ![s].nx = 0]
  /\ connected' = [connected EXCEPT ![s] = FALSE]
  /\ outstanding' = [outstanding EXCEPT ![s] = 0]
  /\ nTimeouts' = [nTimeouts EXCEPT ![s] = 0]
  /\ subPc' = [subPc EXCEPT ![s] = "outer"]
  /\ UNCHANGED <<CPPZMQ_431, unserved, hdrVars, govVars, srvVars, image, imVars, imageName, cliTimeToDie,
                 conn>>

(***************************************************************************)
(* The whole system.                                                       *)
(***************************************************************************)
\* the state after construction: a build of one of the API branches in
\* builds, the subscribers in active started, each configured with one of
\* the stream names it may request, and an image thread for each of the
\* streams in engines (the thread of any other stream is "off")
StartEngines(builds, active, names, engines) ==
  /\ CPPZMQ_431 \in builds
  /\ m_server = FALSE
  /\ m_timeToDie = FALSE
  /\ m_restart = FALSE
  /\ m_requestorMap = EmptyMap
  /\ m_mapMutex = "free"
  /\ srvPc = "init"
  /\ request = <<NoRid, "">>
  /\ nRestart = 0
  /\ image = [n \in StreamNames |-> [state |-> "ready", cnt0 |-> 0, snx |-> 32, gen |-> 0]]
  /\ imPc = [n \in StreamNames |-> IF n \in engines THEN "waitServer" ELSE "off"]
  /\ opened = [n \in StreamNames |-> FALSE]
  /\ lastCnt0 = [n \in StreamNames |-> -1]
  /\ last_snx = [n \in StreamNames |-> 0]
  /\ rids = [n \in StreamNames |-> <<>>]
  /\ rid = [n \in StreamNames |-> 1]
  /\ cnt0 = [n \in StreamNames |-> 0]
  /\ msg = [n \in StreamNames |-> NoMsg]
  /\ sendResult = [n \in StreamNames |-> "none"]
  /\ imageName \in [Subs -> StreamNames]
  /\ \A s \in Subs : imageName[s] \in names[s]
  /\ cliTimeToDie = [s \in Subs |-> FALSE]
  /\ subPc = [s \in Subs |-> IF s \in active THEN "outer" ELSE "off"]
  /\ conn = [s \in Subs |-> 0]
  /\ reqQ = [s \in Subs |-> <<>>]
  /\ inQ = [s \in Subs |-> <<>>]
  /\ sink = [s \in Subs |-> NoSink]
  /\ connected = [s \in Subs |-> FALSE]
  /\ outstanding = [s \in Subs |-> 0]
  /\ nTimeouts = [s \in Subs |-> 0]
  /\ now = 0
  /\ lastCheck = [n \in StreamNames |-> 0]
  /\ lastSend = [n \in StreamNames |-> 0]
  /\ delta = [n \in StreamNames |-> 0]
  /\ unserved = [r \in Rids |-> [n \in StreamNames |-> 0]]

\* the server of the one-stream specifications: the image thread of cam0
StartThreads(builds, active, names) == StartEngines(builds, active, names, Published)

\* no header is being followed from the publisher to the subscriber
HeaderIdle == hdr = NoHeader /\ raw_image = <<>> /\ decoded = NoHeader

Start(builds, active, names) == StartThreads(builds, active, names) /\ HeaderIdle

\* every subscriber requests cam0
Cam0Only == [s \in Subs |-> {"cam0"}]

\* A requests cam0, B any of the names
BAnyName == [s \in Subs |-> IF s = "A" THEN {"cam0"} ELSE StreamNames]

\* the router while the server runs
RouterUp == SrvInit \/ (\E s \in Subs : SrvRecv(s)) \/ SrvLock \/ SrvSet

\* the image thread while it streams: the passes of the streaming loop
Streaming(n) ==
  \/ ImWaitServer(n) \/ ImOuterEnter(n) \/ ImOpenOk(n) \/ ImSetup(n)
  \/ ImAdmitReject(n) \/ ImAdmit(n) \/ ImIdle(n)
  \/ ImLookupLock(n) \/ ImLookup(n) \/ ImPrep(n) \/ ImEncode(n)
  \/ ImSend(n) \/ ImClearLock(n) \/ ImClear(n)

\* the catch block of the send loop
Evict(n) == ImEraseLock(n) \/ ImErase(n)

\* the ways out of the loops on an exit signal, and the hangup
Shutdown(n) ==
  \/ ImStreamExit(n) \/ ImPrepExit(n) \/ ImEncodeExit(n) \/ ImClose(n)
  \/ ImOuterExit(n) \/ ImOpenAbort(n) \/ ImOpenedReturn(n)
  \/ ImHangupLookupLock(n) \/ ImHangupLookup(n) \/ ImHangupSend(n)
  \/ ImHangupClearLock(n) \/ ImHangupClear(n)

\* the catch block of the hangup's send loop
HangupEvict(n) == ImHangupEraseLock(n) \/ ImHangupErase(n)

\* the ways out of the loops taken when the source is not as it was opened
SourceLost(n) == ImOpenRetry(n) \/ ImSemLost(n) \/ ImShapeChanged(n)

\* the steps of the thread of subscriber s
SubThread(s) ==
  SubConnect(s) \/ SubExit(s) \/ SubRecv(s) \/ SubStop(s) \/ SubTeardown(s)

\* a subscriber whose process can be told to stop
Subscriber(s) ==
  \/ CliSigTerm(s) \/ SubConnect(s) \/ SubExit(s)
  \/ SubRecv(s) \/ SubStop(s) \/ SubTeardown(s)

(***************************************************************************)
(* Spec: the pull protocol of a running server built against cppzmq >=     *)
(* 4.3.1 (no receive timeout is ever set), with two subscribers that may   *)
(* be stopped and a producer that keeps writing frames.                    *)
(***************************************************************************)
Init == Start({TRUE}, Subs, BAnyName)

Next ==
  \/ \E n \in Published : SrcWrite(n)
  \/ RouterUp
  \/ \E n \in Published : Streaming(n) \/ Evict(n)
  \/ \E s \in Subs : Subscriber(s)

Spec == Init /\ [][Next]_vars

(***************************************************************************)
(* SpecPull: one subscriber and either build; with the older API the       *)
(* receive times out and the request is re-sent. The server and the        *)
(* subscriber may be told to stop.                                         *)
(***************************************************************************)
InitPull == Start(BOOLEAN, {"A"}, Cam0Only)

NextPull ==
  \/ \E n \in Published : SrcWrite(n)
  \/ SigTerm
  \/ RouterUp \/ SrvExit
  \/ \E n \in Published : Streaming(n) \/ Evict(n) \/ Shutdown(n) \/ HangupEvict(n)
  \/ \E s \in Subs : Subscriber(s) \/ SubTimeout(s)

SpecPull == InitPull /\ [][NextPull]_vars

\* SpecPull with the thread of the subscriber scheduled again and again; a
\* receive that blocks is abandoned once the process is told to stop
SpecPullFair ==
  /\ InitPull /\ [][NextPull]_vars
  /\ WF_vars(SubThread("A"))

\* SpecPull with every thread scheduled again and again: the router and the
\* image thread get the guard of the map in the end however often the other
\* takes it, and the thread of the subscriber runs while it can. The producer
\* and the signals are under no obligation.
SpecPullAllFair ==
  /\ InitPull /\ [][NextPull]_vars
  /\ SF_vars(RouterUp \/ SrvExit)
  /\ \A n \in Published :
       SF_vars(Streaming(n) \/ Evict(n) \/ Shutdown(n) \/ HangupEvict(n))
  /\ WF_vars(SubThread("A"))

(***************************************************************************)
(* SpecLife: the whole life of the image thread with one subscriber that   *)
(* stays: the producer may destroy and re-create the source, the server    *)
(* process may be signalled to restart the stream or to stop.              *)
(***************************************************************************)
InitLife == Start({TRUE}, {"A"}, Cam0Only)

NextLife ==
  \/ \E n \in Published : SrcWrite(n) \/ SrcDestroy(n) \/ SrcCreate(n) \/ SrcReady(n)
  \/ SigTerm \/ SigSegv
  \/ RouterUp \/ SrvExit
  \/ \E n \in Published : Streaming(n) \/ Shutdown(n) \/ SourceLost(n)
  \/ \E s \in Subs : SubConnect(s) \/ SubRecv(s) \/ SubTeardown(s)

SpecLife == InitLife /\ [][NextLife]_vars

\* the steps of the image thread of stream n in SpecLife
ImThreadLife(n) == Streaming(n) \/ Shutdown(n) \/ SourceLost(n)

\* SpecLife with the threads of the server scheduled again and again: the
\* image thread eventually takes a step that changes the state when it can,
\* and so does the router, which gets the guard of the map in the end
\* however often the image thread takes it. The producer, the signals and
\* the subscribers are under no obligation.
SpecLifeFair ==
  /\ InitLife /\ [][NextLife]_vars
  /\ SF_vars(RouterUp \/ SrvExit)
  /\ \A n \in Published : WF_vars(ImThreadLife(n))

(***************************************************************************)
(* SpecOpen: the image thread and the producer of its source, with no      *)
(* subscriber: the source may be destroyed and created again at any time,  *)
(* the server process may be signalled. The threads of the server are      *)
(* scheduled again and again.                                              *)
(***************************************************************************)
InitOpen == Start({TRUE}, {}, Cam0Only)

\* the steps the image thread of stream n takes when nobody subscribes
ImThreadOpen(n) ==
  \/ ImWaitServer(n) \/ ImOuterEnter(n) \/ ImOuterExit(n)
  \/ ImOpenRetry(n) \/ ImOpenOk(n) \/ ImOpenAbort(n)
  \/ ImOpenedReturn(n) \/ ImSetup(n)
  \/ ImStreamExit(n) \/ ImAdmitReject(n) \/ ImAdmit(n)
  \/ ImLookupLock(n) \/ ImLookup(n) \/ ImClose(n)
  \/ ImHangupLookupLock(n) \/ ImHangupLookup(n)

NextOpen ==
  \/ \E n \in Published : SrcWrite(n) \/ SrcDestroy(n) \/ SrcCreate(n) \/ SrcReady(n)
  \/ SigTerm \/ SigSegv
  \/ SrvInit \/ SrvExit
  \/ \E n \in Published : ImThreadOpen(n)

SpecOpen ==
  /\ InitOpen /\ [][NextOpen]_vars
  /\ WF_vars(SrvInit \/ SrvExit)
  /\ \A n \in Published : WF_vars(ImThreadOpen(n))

(***************************************************************************)
(* SpecReset: a server with two image threads, cam0 and cam1, and nobody   *)
(* subscribed; a SIGSEGV/SIGBUS sets the one m_restart all image threads   *)
(* share.                                                                  *)
(***************************************************************************)
\* the steps of the image thread of stream n around a reset of its source
ImThreadReset(n) ==
  \/ ImWaitServer(n) \/ ImOuterEnter(n) \/ ImOpenOk(n) \/ ImOpenAbort(n)
  \/ ImSetup(n) \/ ImStreamExit(n) \/ ImClose(n)

NextReset ==
  \/ SrvInit
  \/ SigSegv
  \/ \E n \in StreamNames : ImThreadReset(n)

InitReset == StartEngines({TRUE}, {}, Cam0Only, StreamNames) /\ HeaderIdle

SpecReset == InitReset /\ [][NextReset]_vars

(***************************************************************************)
(* SpecShared: a server with two image threads, cam0 and cam1, built       *)
(* against cppzmq >= 4.3.1, and one peer that asks for both streams over   *)
(* one socket, so that one routing id has a flag for each stream; the peer *)
(* may be stopped.                                                         *)
(***************************************************************************)
\* the peer of s sends, on the socket it has, a request for a stream other
\* than the one it was started for; once per entry of the map
PeerRequest(s) ==
  /\ subPc[s] = "recv"
  /\ request[1] # RidOf(s)
  /\ \E n \in StreamNames \ {imageName[s]} :
       /\ ~(RidOf(s) \in DOMAIN m_requestorMap /\ n \in DOMAIN m_requestorMap[RidOf(s)])
       /\ \A i \in 1..Len(reqQ[s]) : reqQ[s][i] # <<RidOf(s), n>>
       /\ reqQ' = [reqQ EXCEPT ![s] = Append(@, <<RidOf(s), n>>)]
  /\ outstanding' = [outstanding EXCEPT ![s] = @ + 1]
  /\ UNCHANGED <<CPPZMQ_431, unserved, hdrVars, govVars, srvVars, image, imVars, imageName,
                 cliTimeToDie, subPc, conn, inQ, sink, connected, nTimeouts>>

InitShared == StartEngines({TRUE}, {"A"}, Cam0Only, StreamNames) /\ HeaderIdle

NextShared ==
  \/ RouterUp
  \/ \E n \in StreamNames : Streaming(n) \/ Evict(n)
  \/ \E s \in Subs : Subscriber(s) \/ PeerRequest(s)

SpecShared == InitShared /\ [][NextShared]_vars

(***************************************************************************)
(* SpecRestart: SpecPull's server, built against cppzmq >= 4.3.1, with a   *)
(* subscriber that stays; a server process that has ended may be started   *)
(* again. Every thread is scheduled again and again and gets the guard of  *)
(* the map in the end; the producer, the signal and the operator who       *)
(* starts the server are under no obligation.                              *)
(***************************************************************************)
\* every thread of the server process has ended
ServerEnded == srvPc = "done" /\ \A n \in Published : imPc[n] \in {"returned", "done"}

\* main() of a new server process: a new milkzmqServer, the router and the
\* image threads started; the subscribers, the wire and the source are as
\* they were
SrvStart ==
  /\ ServerEnded
  /\ m_server' = FALSE
  /\ m_timeToDie' = FALSE
  /\ m_restart' = FALSE
  /\ m_requestorMap' = EmptyMap
  /\ m_mapMutex' = "free"
  /\ srvPc' = "init"
  /\ request' = <<NoRid, "">>
  /\ imPc' = [n \in StreamNames |-> IF imPc[n] = "off" THEN "off" ELSE "waitServer"]
  /\ opened' = [n \in StreamNames |-> FALSE]
  /\ lastCnt0' = [n \in StreamNames |-> -1]
  /\ last_snx' = [n \in StreamNames |-> 0]
  /\ rids' = [n \in StreamNames |-> <<>>]
  /\ rid' = [n \in StreamNames |-> 1]
  /\ cnt0' = [n \in StreamNames |-> 0]
  /\ msg' = [n \in StreamNames |-> NoMsg]
  /\ sendResult' = [n \in StreamNames |-> "none"]
  /\ unserved' = [r \in Rids |-> [n \in StreamNames |-> 0]]
  /\ UNCHANGED <<CPPZMQ_431, hdrVars, govVars, nRestart, image, subVars>>

\* the steps of the image thread of stream n in SpecRestart
ImThreadPull(n) == Streaming(n) \/ Evict(n) \/ Shutdown(n) \/ HangupEvict(n)

\* the steps of the thread of a subscriber that is not told to stop
SubThreadStays(s) == SubConnect(s) \/ SubRecv(s) \/ SubTeardown(s)

InitRestart == Start({TRUE}, {"A"}, Cam0Only)

NextRestart ==
  \/ \E n \in Published : SrcWrite(n)
  \/ SigTerm \/ SrvStart
  \/ RouterUp \/ SrvExit
  \/ \E n \in Published : ImThreadPull(n)
  \/ \E s \in Subs : SubThreadStays(s)

SpecRestart ==
  /\ InitRestart /\ [][NextRestart]_vars
  /\ SF_vars(RouterUp \/ SrvExit)
  /\ \A n \in Published : SF_vars(ImThreadPull(n))
  /\ WF_vars(SubThreadStays("A"))

(***************************************************************************)
(* SpecFeed: one subscriber connected to a peer that answers each request  *)
(* with a message of its choosing; a reader waits on the sink's semaphore. *)
(***************************************************************************)
\* sizes of the messages the peer sends: the hangup, around the header size,
\* and a header with a payload
FeedSizes == {1, headerSize - 1, headerSize, headerSize + 1, headerSize + 32}

\* the messages the peer sends
FeedMsgs ==
  {[size |-> z, nx |-> 32, cnt0 |-> c, xrifSize |-> x, gen |-> 0, xrif |-> f] :
     z \in FeedSizes, c \in {0, 1}, x \in {0, 1, 32, 64}, f \in XrifMethods}

\* the peer takes the request of s off the wire and answers it with m
PeerReply(s, m) ==
  /\ subPc[s] = "recv"
  /\ reqQ[s] # <<>>
  /\ inQ[s] = <<>>
  /\ reqQ' = [reqQ EXCEPT ![s] = Tail(@)]
  /\ inQ' = [inQ EXCEPT ![s] = Append(@, m)]
  /\ UNCHANGED <<CPPZMQ_431, unserved, hdrVars, govVars, srvVars, image, imVars, imageName, cliTimeToDie,
                 subPc, conn, sink, connected, outstanding, nTimeouts>>

\* a reader of the sink returns from ImageStreamIO_semwait
SinkRead(s) ==
  /\ sink[s].opened
  /\ sink[s].sem > 0
  /\ sink' = [sink EXCEPT ![s].sem = 0]
  /\ UNCHANGED <<CPPZMQ_431, unserved, hdrVars, govVars, srvVars, image, imVars, imageName, cliTimeToDie,
                 subPc, conn, reqQ, inQ, connected, outstanding, nTimeouts>>

InitFeed == Start({TRUE}, {"A"}, Cam0Only)

NextFeed ==
  \E s \in Subs :
    \/ SubConnect(s) \/ SubRecv(s) \/ SubTeardown(s)
    \/ \E m \in FeedMsgs : PeerReply(s, m)
    \/ SinkRead(s)

SpecFeed == InitFeed /\ [][NextFeed]_vars

(***************************************************************************)
(* SpecError: SpecFeed's subscriber and peer, with a receive that may      *)
(* throw and a process that may be told to stop; the subscriber's thread   *)
(* is scheduled again and again.                                           *)
(***************************************************************************)
InitError == Start({TRUE}, {"A"}, Cam0Only)

NextError ==
  \E s \in Subs :
    \/ CliSigTerm(s)
    \/ SubThread(s) \/ SubRecvThrows(s) \/ SubCaught(s)
    \/ \E m \in FeedMsgs : PeerReply(s, m)

SpecError ==
  /\ InitError /\ [][NextError]_vars
  /\ WF_vars(SubThread("A") \/ SubCaught("A"))

(***************************************************************************)
(* SpecHeader: one header followed from the values the image thread holds, *)
(* through the bytes it writes, to the values the subscriber reads.        *)
(***************************************************************************)
\* a name of k characters
NameOf(k) == [i \in 1..k |-> 97]

\* the headers followed: names up to the size of the field, the smallest and
\* largest values of the fields, the selectors of noCompression() and of
\* defaultCompression(), and values too large for the width of their field
Headers ==
  {[name |-> NameOf(k), atype |-> a, snx |-> x, sny |-> <<64, 0, 0, 0>>,
    cnt0 |-> c, tv_sec |-> tv[1], tv_nsec |-> tv[2],
    difference_method |-> xm[1], reorder_method |-> xm[2],
    compress_method |-> xm[3], compressed_size |-> z] :
     k \in {3, nameSize - 1, nameSize},
     a \in {<<1>>, <<255>>},
     x \in {<<32, 0, 0, 0>>, <<255, 255, 255, 255>>},
     c \in {<<0, 0, 0, 0, 0, 0, 0, 0>>, <<1, 2, 3, 4, 5, 6, 7, 8>>,
            <<255, 255, 255, 255, 255, 255, 255, 255>>},
     tv \in {<<<<0, 0, 0, 0, 0, 0, 0, 0>>, <<0, 0, 0, 0, 0, 0, 0, 0>>>>,
             <<<<9, 8, 7, 6, 5, 4, 3, 2>>, <<255, 201, 154, 59, 0, 0, 0, 0>>>>},
     xm \in {<<<<255, 255, 255, 255>>, <<255, 255, 255, 255>>, <<255, 255, 255, 255>>>>,
             <<<<44, 1, 0, 0>>, <<200, 0, 0, 0>>, <<100, 0, 0, 0>>>>,
             <<<<44, 1, 1, 0>>, <<200, 0, 0, 0>>, <<100, 0, 0, 0>>>>},
     z \in {<<0, 16, 0, 0, 0, 0, 0, 0>>, <<255, 255, 255, 255, 0, 0, 0, 0>>,
            <<0, 16, 0, 0, 1, 0, 0, 0>>}}

\* the header the image thread writes for the values h: memset, the name,
\* then each field through a pointer of the field's type
EncodeHeader(h) ==
  LET m0  == [i \in 0..(headerSize - 1) |-> 0]
      m1  == StoreName(m0, h.name)
      m2  == Store(m1, typeOffset, Narrow(h.atype, 1))
      m3  == Store(m2, size0Offset, Narrow(h.snx, 4))
      m4  == Store(m3, size1Offset, Narrow(h.sny, 4))
      m5  == Store(m4, cnt0Offset, Narrow(h.cnt0, 8))
      m6  == Store(m5, tv_secOffset, Narrow(h.tv_sec, 8))
      m7  == Store(m6, tv_nsecOffset, Narrow(h.tv_nsec, 8))
      m8  == Store(m7, xrifDifferenceOffset, Narrow(h.difference_method, 2))
      m9  == Store(m8, xrifReorderOffset, Narrow(h.reorder_method, 2))
      m10 == Store(m9, xrifCompressOffset, Narrow(h.compress_method, 2))
  IN  Store(m10, xrifSizeOffset, Narrow(h.compressed_size, 4))

\* a variant of DecodeHeader that reads the selectors as unsigned
DecodeHeaderUnsigned(m) ==
  [name              |-> <<>>,
   atype             |-> Load(m, typeOffset, 1),
   nx                |-> ZeroExtend(Load(m, size0Offset, 4), 8),
   ny                |-> ZeroExtend(Load(m, size1Offset, 4), 8),
   cnt0              |-> Load(m, cnt0Offset, 8),
   tv_sec            |-> Load(m, tv_secOffset, 8),
   tv_nsec           |-> Load(m, tv_nsecOffset, 8),
   difference_method |-> ZeroExtend(Load(m, xrifDifferenceOffset, 2), 4),
   reorder_method    |-> ZeroExtend(Load(m, xrifReorderOffset, 2), 4),
   compress_method   |-> ZeroExtend(Load(m, xrifCompressOffset, 2), 4),
   compressed_size   |-> ZeroExtend(Load(m, xrifSizeOffset, 4), 8)]

\* the values the subscriber reads from the header m: each through a pointer
\* of the field's type, converted to the type of the object it is assigned
\* to; the name is not read
DecodeHeader(m) ==
  [name              |-> <<>>,
   atype             |-> Load(m, typeOffset, 1),
   nx                |-> ZeroExtend(Load(m, size0Offset, 4), 8),
   ny                |-> ZeroExtend(Load(m, size1Offset, 4), 8),
   cnt0              |-> Load(m, cnt0Offset, 8),
   tv_sec            |-> Load(m, tv_secOffset, 8),
   tv_nsec           |-> Load(m, tv_nsecOffset, 8),
   difference_method |-> SignExtend(Load(m, xrifDifferenceOffset, 2), 4),
   reorder_method    |-> SignExtend(Load(m, xrifReorderOffset, 2), 4),
   compress_method   |-> SignExtend(Load(m, xrifCompressOffset, 2), 4),
   compressed_size   |-> ZeroExtend(Load(m, xrifSizeOffset, 4), 8)]

\* the image thread builds the header
HdrEncode ==
  /\ hdr # NoHeader
  /\ raw_image = <<>>
  /\ raw_image' = EncodeHeader(hdr)
  /\ UNCHANGED <<CPPZMQ_431, unserved, hdr, decoded, govVars, srvVars, image, imVars, subVars>>

\* the subscriber reads the header
HdrDecode ==
  /\ raw_image # <<>>
  /\ decoded = NoHeader
  /\ decoded' = DecodeHeader(raw_image)
  /\ UNCHANGED <<CPPZMQ_431, unserved, hdr, raw_image, govVars, srvVars, image, imVars, subVars>>

\* the next frame, with a header of its own
HdrNext ==
  /\ decoded # NoHeader
  /\ hdr' \in Headers
  /\ raw_image' = <<>>
  /\ decoded' = NoHeader
  /\ UNCHANGED <<CPPZMQ_431, unserved, govVars, srvVars, image, imVars, subVars>>

InitHeader ==
  /\ StartThreads({TRUE}, {}, Cam0Only)
  /\ hdr \in Headers
  /\ raw_image = <<>>
  /\ decoded = NoHeader

NextHeader == HdrEncode \/ HdrDecode \/ HdrNext

SpecHeader == InitHeader /\ [][NextHeader]_vars

(***************************************************************************)
(* SpecGovernor: the streaming loop of one image thread with the clock.    *)
(* Time is counted in ticks; a pass of the loop is one step, which takes   *)
(* no tick or one, and a microsleep takes one tick. delta is kept          *)
(* multiplied by FpsGainInv, so that delta += m_fpsGain * x is             *)
(* delta += x. The sends of a dispatching pass are those of ImSend and are *)
(* not followed here; the subscriber is the routing id GovRid.             *)
(***************************************************************************)
\* 1.0/m_fpsTgt, in ticks
TargetInterval == 3

\* 1/m_fpsGain
FpsGainInv == 10

\* the clock stops at MaxTime
MaxTime == 18

\* the subscriber of the stream
GovRid == <<"A", 1>>

\* a variant of Admitted without the check
AdmittedAlways(n) == now >= lastCheck[n]

\* a variant of Admitted that ignores delta
AdmittedFixed(n) == ~(now - lastCheck[n] < TargetInterval)

\* the frame-rate check passes: not (currtime - lastCheck < 1.0/m_fpsTgt - delta)
Admitted(n) ==
  ~((now - lastCheck[n]) * FpsGainInv < TargetInterval * FpsGainInv - delta[n])

\* cnt0 != lastCnt0 at the head of the loop
NewFrame(n) == image[n].cnt0 # lastCnt0[n]

\* the loop runs: while(!m_timeToDie && !m_restart)
GovLoop(n) == imPc[n] = "streaming" /\ ~ExitSignal /\ image[n].state = "ready"

\* the producer writes a frame, at most one per tick
GovSrcWrite(n) ==
  /\ imPc[n] = "streaming"
  /\ image[n].state = "ready"
  /\ image[n].cnt0 < now
  /\ image' = [image EXCEPT ![n].cnt0 = @ + 1]
  /\ UNCHANGED <<CPPZMQ_431, unserved, hdrVars, govVars, srvVars, imVars, subVars>>

\* the subscriber's request for n has been routed
GovRequest(n) ==
  /\ imPc[n] = "streaming"
  /\ Armed(m_requestorMap, n) = {}
  /\ m_requestorMap' = Routed(m_requestorMap, GovRid, n)
  /\ unserved' = [unserved EXCEPT ![GovRid][n] = @ + 1]
  /\ UNCHANGED <<CPPZMQ_431, hdrVars, govVars, m_server, m_timeToDie, m_restart,
                 m_mapMutex, srvPc, request, nRestart, image, imVars, subVars>>

\* a new frame, the check fails: microsleep and continue
GovReject(n) ==
  /\ GovLoop(n)
  /\ NewFrame(n)
  /\ ~Admitted(n)
  /\ now < MaxTime
  /\ now' = now + 1
  /\ UNCHANGED <<CPPZMQ_431, unserved, hdrVars, lastCheck, lastSend, delta, srvVars, image,
                 imVars, subVars>>

\* a new frame, the check passes, no subscriber has its flag set:
\* lastCheck = currtime and continue
GovSkip(n) ==
  /\ GovLoop(n)
  /\ NewFrame(n)
  /\ Admitted(n)
  /\ Armed(m_requestorMap, n) = {}
  /\ lastCheck' = [lastCheck EXCEPT ![n] = now]
  /\ \E d \in 0..1 : now + d <= MaxTime /\ now' = now + d
  /\ UNCHANGED <<CPPZMQ_431, unserved, hdrVars, lastSend, delta, srvVars, image, imVars,
                 subVars>>

\* a new frame, the check passes, the frame is sent to the subscribers whose
\* flag is set and their flags are cleared; then ct = get_curr_time(),
\* delta += m_fpsGain * (ct - lastSend - 1.0/m_fpsTgt), lastSend = ct,
\* lastCnt0 = cnt0
GovDispatch(n) ==
  /\ GovLoop(n)
  /\ NewFrame(n)
  /\ Admitted(n)
  /\ Armed(m_requestorMap, n) # {}
  /\ lastCheck' = [lastCheck EXCEPT ![n] = now]
  /\ m_requestorMap' = MapSet(m_requestorMap, GovRid, n, FALSE)
  /\ \E d \in 0..1 :
       /\ now + d <= MaxTime
       /\ now' = now + d
       /\ delta' = [delta EXCEPT ![n] = @ + (now + d - lastSend[n] - TargetInterval)]
       /\ lastSend' = [lastSend EXCEPT ![n] = now + d]
  /\ lastCnt0' = [lastCnt0 EXCEPT ![n] = image[n].cnt0]
  /\ cnt0' = [cnt0 EXCEPT ![n] = image[n].cnt0]
  /\ unserved' = [unserved EXCEPT ![GovRid][n] = @ - 1]
  /\ UNCHANGED <<CPPZMQ_431, hdrVars, m_server, m_timeToDie, m_restart, m_mapMutex,
                 srvPc, request, nRestart, image, imPc, opened, last_snx, rids, rid,
                 msg, sendResult, subVars>>

\* no new frame, the semaphores are there: microsleep, then the governor is
\* reset if get_curr_time() - lastSend > 2*1.0/m_fpsTgt
GovIdle(n) ==
  /\ GovLoop(n)
  /\ ~NewFrame(n)
  /\ now < MaxTime
  /\ now' = now + 1
  /\ IF now + 1 - lastSend[n] > 2 * TargetInterval
     THEN /\ delta' = [delta EXCEPT ![n] = 0]
          /\ lastSend' = [lastSend EXCEPT ![n] = now + 1 - 2 * TargetInterval]
     ELSE UNCHANGED <<delta, lastSend>>
  /\ UNCHANGED <<CPPZMQ_431, unserved, hdrVars, lastCheck, srvVars, image, imVars, subVars>>

InitGovernor == Start({TRUE}, {}, Cam0Only)

NextGovernor ==
  \/ SrvInit
  \/ \E n \in Published :
       \/ ImWaitServer(n) \/ ImOuterEnter(n) \/ ImOpenOk(n) \/ ImSetup(n)
       \/ GovSrcWrite(n) \/ GovRequest(n)
       \/ GovReject(n) \/ GovSkip(n) \/ GovDispatch(n) \/ GovIdle(n)

SpecGovernor == InitGovernor /\ [][NextGovernor]_vars

(***************************************************************************)
(* SpecRate: SpecGovernor with a producer faster than the target rate and  *)
(* a subscriber that requests again at once: whenever the image thread     *)
(* starts a pass, a new frame is there and the subscriber's flag is set.   *)
(***************************************************************************)
RatePremise(n) == NewFrame(n) /\ Armed(m_requestorMap, n) # {}

RateReject(n) == RatePremise(n) /\ GovReject(n)

RateDispatch(n) == RatePremise(n) /\ GovDispatch(n)

InitRate == Start({TRUE}, {}, Cam0Only)

NextRate ==
  \/ SrvInit
  \/ \E n \in Published :
       \/ ImWaitServer(n) \/ ImOuterEnter(n) \/ ImOpenOk(n) \/ ImSetup(n)
       \/ GovSrcWrite(n) \/ GovRequest(n)
       \/ RateReject(n) \/ RateDispatch(n)

SpecRate == InitRate /\ [][NextRate]_vars

(***************************************************************************)
(* SpecZeroCopy: Spec with the transport reading the message late. A frame *)
(* is handed to the transport as a pointer to msg and a length, with no    *)
(* copy and no completion callback; the transport reads the bytes when it  *)
(* transmits them, which may be after the image thread has encoded the     *)
(* next frame into the same buffer.                                        *)
(***************************************************************************)
\* the transport transmits a frame queued to s after the buffer it points to
\* was written again: the bytes that leave are the buffer's bytes of now
ZcLateRead(s) ==
  /\ \E i \in 1..Len(inQ[s]) :
       /\ inQ[s][i].size >= headerSize
       /\ msg[imageName[s]] # NoMsg
       /\ msg[imageName[s]] # inQ[s][i]
       /\ inQ' = [inQ EXCEPT ![s][i] = msg[imageName[s]]]
  /\ imageName[s] \in Published
  /\ UNCHANGED <<CPPZMQ_431, unserved, hdrVars, govVars, srvVars, image, imVars, imageName,
                 cliTimeToDie, subPc, conn, reqQ, sink, connected, outstanding,
                 nTimeouts>>

NextZeroCopy == Next \/ \E s \in Subs : ZcLateRead(s)

SpecZeroCopy == Init /\ [][NextZeroCopy]_vars

(***************************************************************************)
(* Properties.                                                             *)
(***************************************************************************)
\* the frames (not hangups) in a sequence of messages
Frames(q) == {i \in 1..Len(q) : q[i] # HangupMsg}

\* C1 as stated: a subscriber never has more than one outstanding request
\* (requests sent on the current connection minus messages received), receive
\* timeouts included
C1_AtMostOneOutstanding == \A s \in Subs : outstanding[s] <= 1

\* C1 amended: a subscriber has at most one outstanding request plus one for
\* each receive timeout on the current connection (the timeout re-sends the
\* request); without a receive timeout it has at most one
C1_OutstandingWithinTimeouts ==
  \A s \in Subs : outstanding[s] >= 0 /\ outstanding[s] <= 1 + nTimeouts[s]

\* a subscriber that timed out, re-sent, and waits with two requests unanswered
C1_Witness ==
  \E s \in Subs : subPc[s] = "recv" /\ nTimeouts[s] = 1 /\ outstanding[s] = 2

\* C2 as stated: at most one frame of a stream is in flight to a subscriber
\* at any time, duplicate requests from receive timeouts included
C2_OneFrameInFlight == \A s \in Subs : Cardinality(Frames(inQ[s])) <= 1

\* the elements of a sequence
Range(q) == {q[i] : i \in 1..Len(q)}

\* positions of the image thread between the lookup of a pass and its end
DispatchPcs == {"prep", "encode", "send", "clearLock", "clear", "eraseLock", "erase"}

\* C4: the image thread of a stream sends only to routing ids whose flag
\* for that very stream was set when it looked: the lookup collects exactly
\* those, each recipient not yet served is still armed, a frame reaches a
\* subscriber only as the recipient in turn, and a flag that is not set
\* becomes set only when the router processes a request from that routing id
\* for that stream
C4_SendsOnlyToArmed ==
  /\ [](\A n \in Published : imPc[n] \in DispatchPcs =>
          \A i \in rid[n]..Len(rids[n]) : rids[n][i] \in Armed(m_requestorMap, n))
  /\ [][\A n \in Published : imPc[n] = "lookup" /\ imPc'[n] # "lookup" =>
          Range(rids'[n]) = Armed(m_requestorMap, n)]_vars
  /\ [][\A s \in Subs : Len(inQ'[s]) > Len(inQ[s]) =>
          \E n \in Published : /\ imPc[n] = "send"
                               /\ rids[n][rid[n]] = RidOf(s)
                               /\ RidOf(s) \in Armed(m_requestorMap, n)]_vars
  /\ [][\A r \in Rids, y \in StreamNames :
          r \notin Armed(m_requestorMap, y) /\ r \in Armed(m_requestorMap', y) =>
            srvPc = "set" /\ request = <<r, y>>]_vars

\* A and B are both known for the stream, only A is armed, and the dispatch
\* has A as its only recipient
C4_Witness ==
  \E n \in Published :
    /\ imPc[n] = "send"
    /\ rids[n] = <<RidOf("A")>>
    /\ RidOf("B") \in DOMAIN m_requestorMap
    /\ n \in DOMAIN m_requestorMap[RidOf("B")]
    /\ ~m_requestorMap[RidOf("B")][n]

\* C5: with no flag set for the stream when a new frame is admitted the pass
\* ends at the lookup, nothing encoded and nothing sent; the image thread is
\* at the encode or the send only with a non-empty list of recipients
C5_NoEncodeWithoutRecipients ==
  /\ [](\A n \in Published : imPc[n] \in {"prep", "encode", "send"} => Len(rids[n]) > 0)
  /\ [][\A n \in Published :
          imPc[n] = "lookup" /\ imPc'[n] # "lookup" /\ Armed(m_requestorMap, n) = {} =>
            imPc'[n] = "streaming" /\ msg'[n] = msg[n] /\ inQ' = inQ]_vars

\* a new frame is admitted and the lookup is about to find no flag set
C5_Witness ==
  \E n \in Published :
    /\ imPc[n] = "lookup"
    /\ image[n].cnt0 # lastCnt0[n]
    /\ Armed(m_requestorMap, n) = {}

\* C6 as stated: a flag goes from set to not set only right after a send to
\* that routing id succeeded, or, when the send failed, with the removal of
\* the routing id's whole entry; a send that would block clears nothing
C6_ClearedOnlyAfterSuccess ==
  [][\A r \in Rids, y \in StreamNames :
       r \in Armed(m_requestorMap, y) /\ r \notin Armed(m_requestorMap', y) =>
         \E n \in Published :
           /\ imPc[n] \in {"clear", "erase", "hClear", "hErase"}
           /\ rids[n][rid[n]] = r
           /\ \/ sendResult[n] = "ok" /\ y = n
                   /\ m_requestorMap' = MapSet(m_requestorMap, r, n, FALSE)
              \/ sendResult[n] = "threw" /\ r \notin DOMAIN m_requestorMap']_vars

\* the image thread of n is about to clear the flag of subscriber s, who has
\* received the frame of this pass and whose next request the router has
\* processed since
RoutedDuringDispatch(n, s) ==
  /\ imPc[n] = "clear"
  /\ rids[n][rid[n]] = RidOf(s)
  /\ sendResult[n] = "ok"
  /\ subPc[s] = "recv"
  /\ outstanding[s] = 1
  /\ reqQ[s] = <<>>
  /\ inQ[s] = <<>>
  /\ request[1] # RidOf(s)

\* C7 as stated: a request routed after the lookup and before the end of the
\* dispatch stays armed for the next cycle, this cycle never clears it
C7_RoutedDuringDispatchStaysArmed ==
  [][\A n \in Published, s \in Subs :
       RoutedDuringDispatch(n, s) => RidOf(s) \in Armed(m_requestorMap', n)]_vars

\* C8: a failed send removes the entry of that routing id and nothing else,
\* the send loop goes on to the next recipient in the list, and a send never
\* waits: it has an outcome whatever the state of the peer
C8_EvictOnlyTheFailed ==
  /\ [](\A n \in Published : imPc[n] \in {"send", "hSend"} =>
          SendOutcomes(rids[n][rid[n]]) # {})
  /\ [][\A n \in Published : imPc[n] = "erase" /\ imPc'[n] # "erase" =>
          /\ m_requestorMap' = MapErase(m_requestorMap, rids[n][rid[n]])
          /\ rid[n] < Len(rids[n]) =>
               /\ imPc'[n] = "send"
               /\ rids'[n] = rids[n]
               /\ rid'[n] = rid[n] + 1
               /\ msg'[n] = msg[n]]_vars

\* the first of two recipients was evicted and the frame is about to be sent
\* to the second
C8_Witness ==
  \E n \in Published :
    /\ imPc[n] = "send"
    /\ Len(rids[n]) = 2
    /\ rid[n] = 2
    /\ rids[n][1] \notin DOMAIN m_requestorMap
    /\ rids[n][2] \in Armed(m_requestorMap, n)

\* C3 as stated: the frame counters a subscriber receives never decrease
\* over the whole run, re-opens of the source by the image thread included
C3_CountersNeverDecrease ==
  [][\A s \in Subs : sink'[s].cnt0 >= sink[s].cnt0]_vars

\* C3 amended: the frame counters a subscriber receives never decrease as
\* long as the frames come from the same incarnation of the source, across
\* re-opens by the image thread too; a producer that re-creates the source
\* starts its counter again at 0
C3_CountersNeverDecreaseWithinSource ==
  [][\A s \in Subs : sink'[s].gen = sink[s].gen => sink'[s].cnt0 >= sink[s].cnt0]_vars

\* a subscriber has received a frame written after the source was re-created
C3_Witness == \E s \in Subs : sink[s].gen >= 1 /\ sink[s].cnt0 >= 1

\* C9: whoever owns m_mapMutex is at a statement that reads or writes the
\* map: the router at its assignment, an image thread at a lookup, a clear
\* or an erase; never in a send or a receive
C9_GuardNotHeldAcrossIO ==
  /\ m_mapMutex = "router" => srvPc = "set"
  /\ \A n \in Published :
       m_mapMutex = n => imPc[n] \in {"lookup", "clear", "erase", "hLookup", "hClear", "hErase"}

\* an image thread is in a send while the router owns the guard
C9_Witness ==
  \E n \in Published : imPc[n] \in {"send", "hSend"} /\ m_mapMutex = "router"

\* a message shorter than the header (the hangup included), or one whose
\* payload length field is not the length of the payload that came with it
Malformed(m) == m.size < headerSize \/ m.xrifSize # m.size - headerSize

\* C10 as stated: on receiving a malformed or undersized message the
\* subscriber leaves the sink as it is (no data, no counter, no post of the
\* semaphore) and goes on to close the connection
C10_MalformedRejected ==
  [][\A s \in Subs :
       /\ subPc[s] = "recv"
       /\ inQ[s] # <<>>
       /\ inQ'[s] = Tail(inQ[s])
       /\ Malformed(Head(inQ[s]))
       => sink'[s] = sink[s] /\ subPc'[s] = "teardown"]_vars

\* C11 as stated: a received message is taken for the hangup exactly when it
\* is shorter than the header; one of exactly the header's size is a frame
C11_HangupIffShorterThanHeader ==
  [][\A s \in Subs :
       subPc[s] = "recv" /\ inQ[s] # <<>> /\ inQ'[s] = Tail(inQ[s])
       => (subPc'[s] = "teardown" <=> Head(inQ[s]).size < headerSize)]_vars

\* C13: a receive that times out re-sends the request, with the same routing
\* id and name, on the same connection and the thread waits again: nothing
\* is closed, the connected flag and the sink stay as they were
C13_TimeoutResendsAndWaits ==
  [][\A s \in Subs :
       nTimeouts'[s] = nTimeouts[s] + 1
       => /\ subPc[s] = "recv" /\ subPc'[s] = "recv"
          /\ reqQ'[s] = Append(reqQ[s], <<<<s, conn[s]>>, imageName[s]>>)
          /\ conn'[s] = conn[s]
          /\ connected'[s] = connected[s]
          /\ sink'[s] = sink[s]
          /\ inQ'[s] = inQ[s]]_vars

\* a receive has timed out on a connection that delivered a frame before
C13_Witness ==
  \E s \in Subs :
    /\ nTimeouts[s] > 0
    /\ subPc[s] = "recv"
    /\ connected[s]
    /\ sink[s].opened
    /\ Len(reqQ[s]) > 0

\* C14 as stated: whichever API branch is built, a connection a subscriber
\* waits on has its receive timeout set
C14_ReceiveTimeoutArmed ==
  \A s \in Subs : subPc[s] = "recv" => RcvTimeoSet

\* the image thread of stream n has ended
Exited(n) == imPc[n] \in {"returned", "done"}

\* C15 as stated: an image thread that ends on the stop flag, from whatever
\* position, has sent the hangup to the armed subscribers of its stream: it
\* does not end by the return that precedes the hangup while one is armed
C15_NoExitWithoutHangup ==
  [][\A n \in Published :
       imPc[n] # "returned" /\ imPc'[n] = "returned" /\ m_timeToDie
       => Armed(m_requestorMap, n) = {}]_vars

\* C16 as stated: an image thread that has ended has closed its source
C16_ExitedWithSourceClosed ==
  \A n \in Published : Exited(n) => ~opened[n]

\* C18 as stated: the restart signal never ends an image thread: a thread
\* ends only when the stop flag is set
C18_RestartNeverExits ==
  [][\A n \in Published : ~Exited(n) /\ Exited(n)' => m_timeToDie]_vars

\* the positions of the streaming loop
StreamingPcs ==
  {"streaming", "lookupLock", "lookup", "prep", "encode", "send", "clearLock",
   "clear", "eraseLock", "erase"}

\* C19 as stated: an image thread in its streaming loop whose source has
\* lost its semaphores eventually leaves the loop to close the source and
\* open it again (or the source is ready again, or the thread was told to
\* stop), whether or not a subscriber is armed or a new frame is unsent
C19_SemLostLeadsToReopen ==
  \A n \in Published :
    (imPc[n] \in StreamingPcs /\ ~SemOk(n))
      ~> (imPc[n] \in {"closing", "outer", "opening"} \/ SemOk(n) \/ Exited(n))

\* C20: in the open loop a source that is absent, or whose semaphores are
\* not there yet, does not end the image thread: while no signal is set the
\* thread stays in the open loop. Once the source is ready the thread gets to
\* the streaming loop (unless the source goes away again or a signal
\* arrives), and it enters the loop with the source open and the shape the
\* source has then
C20_OpenRetriesUntilReady ==
  /\ [][\A n \in Published :
          imPc[n] = "opening" /\ ~SemOk(n) /\ ~ExitSignal
          => imPc'[n] = "opening"]_vars
  /\ [][\A n \in Published :
          imPc[n] \notin StreamingPcs /\ imPc'[n] = "streaming"
          => opened'[n] /\ last_snx'[n] = image[n].snx /\ lastCnt0'[n] = -1]_vars
  /\ \A n \in Published :
       (imPc[n] = "opening" /\ SemOk(n))
         ~> (imPc[n] \in StreamingPcs \/ ~SemOk(n) \/ ExitSignal \/ Exited(n))

\* the thread streams a source that was created again, with another shape,
\* after it had found the source absent or not ready in its open loop
C20_Witness ==
  \E n \in Published :
    /\ imPc[n] \in StreamingPcs
    /\ opened[n]
    /\ image[n].gen > 0
    /\ image[n].snx = 64
    /\ last_snx[n] = 64
    /\ ~ExitSignal

\* C17: once the subscriber's process is told to stop, its thread abandons
\* the receive, leaves its loops and ends; when it has ended its connection
\* is closed and so is its sink
C17_SubscriberStops ==
  /\ \A s \in {"A"} : cliTimeToDie[s] ~> subPc[s] = "done"
  /\ [](\A s \in Subs : subPc[s] = "done"
          => ~sink[s].opened /\ ~connected[s] /\ ~Live(<<s, conn[s]>>))

\* a subscriber that was told to stop while it was connected, with its sink
\* open, has ended
C17_Witness ==
  \E s \in Subs :
    /\ subPc[s] = "done"
    /\ cliTimeToDie[s]
    /\ sink[s].cnt0 > 0
    /\ conn[s] > 0

\* C12 as stated: a subscriber that has opened a new connection after a
\* hangup and waits on it without having received anything yet, while a
\* server runs, eventually receives from it and is connected again, unless
\* the server is told to stop
C12_ReconnectLeadsToFrames ==
  \A s \in {"A"} :
    (subPc[s] = "recv" /\ conn[s] > 1 /\ ~connected[s] /\ m_server /\ ~m_timeToDie)
      ~> (connected[s] \/ m_timeToDie)

\* C27 as stated: a pass that admitted a new frame and found no subscriber
\* armed ends with the last-seen counter set to that frame's counter
C27_SkipUpdatesLastSeen ==
  [][\A n \in Published :
       imPc[n] = "lookup" /\ imPc'[n] = "streaming"
       => lastCnt0'[n] = cnt0[n]]_vars

\* the entry of routing id r and stream n in map m: "none" when there is none
Entry(m, r, n) ==
  IF r \in DOMAIN m /\ n \in DOMAIN m[r] THEN IF m[r][n] THEN "armed" ELSE "clear"
  ELSE "none"

\* C29: the router's step that processes the request <<r, n>> leaves (r, n)
\* armed and every other entry of the map as it was; no step of the router
\* clears a flag, removes an entry or sends a message
C29_RouterOnlyArms ==
  [][srvPc' # srvPc
     => /\ inQ' = inQ
        /\ \A r \in Rids, n \in StreamNames :
             IF srvPc = "set" /\ r = request[1] /\ n = request[2]
             THEN Entry(m_requestorMap', r, n) = "armed"
             ELSE Entry(m_requestorMap', r, n) = Entry(m_requestorMap, r, n)]_vars

\* the router has armed one routing id while the entry of another is clear
C29_Witness ==
  /\ srvPc = "recv"
  /\ \E r1, r2 \in DOMAIN m_requestorMap :
       /\ r1 # r2
       /\ \E n \in DOMAIN m_requestorMap[r1] : m_requestorMap[r1][n]
       /\ \E n \in DOMAIN m_requestorMap[r2] : ~m_requestorMap[r2][n]

\* C30: the recipients of a cycle are those listed at the lookup: the list
\* does not change until the cycle ends, a routing id armed for the stream
\* that is not in the list is sent nothing by the cycle and keeps its flag
\* (on any step: a flag is lost only by a recipient of the cycle under way),
\* and the next lookup lists it
C30_RecipientsFixedAtLookup ==
  /\ [][\A n \in Published :
          imPc[n] \in DispatchPcs /\ imPc'[n] \in DispatchPcs => rids'[n] = rids[n]]_vars
  /\ [][\A n \in Published, r \in Rids :
          r \in Armed(m_requestorMap, n) /\ r \notin Range(rids[n])
          => /\ r \in Armed(m_requestorMap', n)
             /\ imPc[n] \in DispatchPcs /\ imPc'[n] # imPc[n] /\ r = RidOf(r[1])
                => inQ'[r[1]] = inQ[r[1]]
             /\ imPc[n] = "lookup" /\ imPc'[n] # "lookup"
                => r \in Range(rids'[n])]_vars

\* a frame is being sent while a routing id that is not among the
\* recipients of the cycle is armed for the stream
C30_Witness ==
  \E n \in Published, r \in Rids :
    /\ imPc[n] \in {"send", "clearLock", "clear"}
    /\ r \in Armed(m_requestorMap, n)
    /\ r \notin Range(rids[n])

\* C28: when the receive has thrown, with the stop flag set the thread
\* leaves the inner loop for the teardown, and from there it ends; with the
\* flag clear the exception is thrown on: the thread does not go back to the
\* receive, sends nothing and stays terminated
C28_RecvErrorStopsOrPropagates ==
  /\ [][\A s \in Subs :
          subPc[s] = "caught" /\ subPc'[s] # "caught"
          => /\ subPc'[s] = IF cliTimeToDie[s] THEN "teardown" ELSE "terminated"
             /\ reqQ'[s] = reqQ[s] /\ sink'[s] = sink[s]]_vars
  /\ [][\A s \in Subs : subPc[s] = "terminated" => subPc'[s] = "terminated"]_vars
  /\ \A s \in {"A"} :
       (subPc[s] = "caught" /\ cliTimeToDie[s]) ~> subPc[s] = "done"

\* a receive has thrown with the stop flag clear and the thread is
\* terminated while its connection delivered frames before
C28_Witness ==
  \E s \in Subs :
    /\ subPc[s] = "terminated"
    /\ ~cliTimeToDie[s]
    /\ connected[s]

\* the message a step has queued to subscriber s, when it has queued one
Queued(s) == inQ'[s][Len(inQ'[s])]

\* C21 as stated: every frame sent after the shape of the source has changed
\* carries the new shape: a frame queued to a subscriber has the shape the
\* source has then
C21_FramesCarryCurrentShape ==
  [][\A s \in Subs :
       Len(inQ'[s]) > Len(inQ[s]) /\ Queued(s).size >= headerSize
       => Queued(s).nx = image[imageName[s]].snx]_vars

\* C21 amended: a pass encodes only when the shape it reads from the source
\* is the one captured at the open, and otherwise leaves the loop to close
\* and open again, which captures the shape anew; every frame sent carries
\* the shape captured at the last open; the subscriber's sink has the shape
\* of the last frame received and changes shape only on a frame of another
\* shape
C21_FramesCarryOpenedShape ==
  /\ [][\A n \in Published :
          imPc[n] = "prep" /\ imPc'[n] # "prep" /\ ~ExitSignal
          => IF image[n].snx = last_snx[n]
             THEN imPc'[n] = "encode"
             ELSE imPc'[n] = "closing"]_vars
  /\ [][\A n \in Published :
          imPc[n] = "opened" /\ imPc'[n] = "streaming"
          => last_snx'[n] = image[n].snx]_vars
  /\ [][\A s \in Subs :
          Len(inQ'[s]) > Len(inQ[s]) /\ Queued(s).size >= headerSize
          => Queued(s).nx = last_snx[imageName[s]]]_vars
  /\ [][\A s \in Subs :
          sink'[s].opened /\ sink'[s].nx # sink[s].nx
          => /\ subPc[s] = "recv" /\ inQ[s] # <<>>
             /\ Head(inQ[s]).nx # sink[s].nx
             /\ sink'[s].nx = Head(inQ[s]).nx]_vars

\* the subscriber's sink was re-created with the shape of a source that was
\* created anew with another shape, and the image thread streams that shape
C21_Witness ==
  \E s \in Subs :
    /\ sink[s].opened
    /\ sink[s].nx = 64
    /\ sink[s].gen > 0
    /\ last_snx[imageName[s]] = 64
    /\ imPc[imageName[s]] \in StreamingPcs

\* C23: the decoder configuration with which a frame is decoded is the one
\* the frame's header names, also when the selectors change from one frame
\* to the next and the shape stays the same
C23_DecoderFollowsHeader ==
  [][\A s \in Subs :
       subPc[s] = "recv" /\ inQ[s] # <<>> /\ inQ'[s] # inQ[s]
       /\ ~TooShort(Head(inQ[s]))
       => sink'[s].xrif = Head(inQ[s]).xrif]_vars

\* every selector of h fits the two signed bytes of its field, the payload
\* length fits the four bytes of its field, the name fits the name field
ValidHeader(h) ==
  /\ Len(h.name) <= nameSize
  /\ \A v \in {h.difference_method, h.reorder_method, h.compress_method} :
       \A i \in 3..4 : v[i] = IF v[2] >= 128 THEN 255 ELSE 0
  /\ \A i \in 5..8 : h.compressed_size[i] = 0

\* C22: for every valid header, the values the subscriber reads from the
\* bytes the publisher wrote are the values the publisher wrote: type, width,
\* height, counter, timestamp, the three codec selectors and the payload
\* length
C22_HeaderRoundTrip ==
  decoded # NoHeader /\ ValidHeader(hdr)
  => /\ decoded.atype = hdr.atype
     /\ decoded.nx = hdr.snx \o <<0, 0, 0, 0>>
     /\ decoded.ny = hdr.sny \o <<0, 0, 0, 0>>
     /\ decoded.cnt0 = hdr.cnt0
     /\ decoded.tv_sec = hdr.tv_sec
     /\ decoded.tv_nsec = hdr.tv_nsec
     /\ decoded.difference_method = hdr.difference_method
     /\ decoded.reorder_method = hdr.reorder_method
     /\ decoded.compress_method = hdr.compress_method
     /\ decoded.compressed_size = hdr.compressed_size

\* a header with the longest name, the largest counter and negative selectors
\* was written and read back
C22_Witness ==
  /\ decoded # NoHeader
  /\ ValidHeader(hdr)
  /\ Len(hdr.name) = nameSize
  /\ hdr.cnt0[8] = 255
  /\ hdr.difference_method[1] = 255
  /\ decoded.difference_method = hdr.difference_method

\* a step that is a pass of the streaming loop of n with a new frame
GovPass(n) ==
  /\ GovLoop(n)
  /\ NewFrame(n)
  /\ <<now, lastCheck[n], lastSend[n], delta[n], lastCnt0[n]>>'
       # <<now, lastCheck[n], lastSend[n], delta[n], lastCnt0[n]>>

\* C24: the frame-rate check rejects exactly when
\* now - lastCheck < targetInterval - delta; a rejection leaves lastCheck,
\* lastSend, delta and the last-seen counter as they are; an acceptance sets
\* lastCheck = now, so that two accepted checks in a row are at least
\* targetInterval - delta apart
C24_AdmitRejectsExactly ==
  [][\A n \in Published :
       GovPass(n)
       => IF (now - lastCheck[n]) * FpsGainInv
               < TargetInterval * FpsGainInv - delta[n]
          THEN /\ lastCheck'[n] = lastCheck[n]
               /\ lastSend'[n] = lastSend[n]
               /\ delta'[n] = delta[n]
               /\ lastCnt0'[n] = lastCnt0[n]
          ELSE /\ lastCheck'[n] = now
               /\ (lastCheck'[n] - lastCheck[n]) * FpsGainInv
                    >= TargetInterval * FpsGainInv - delta[n]]_vars

\* a check was accepted with a correction that is not 0, after a dispatch
C24_Witness ==
  \E n \in Published :
    /\ lastCheck[n] = now
    /\ delta[n] > 0
    /\ lastCnt0[n] > 0
    /\ lastCheck[n] > lastSend[n]

\* C26: a pass of the streaming loop that finds no subscriber with its flag
\* set, and ends more than two target intervals after the last dispatch,
\* leaves delta = 0 and lastSend = now - 2*targetInterval
C26_IdleResetsGovernor ==
  [][\A n \in Published :
       /\ GovLoop(n)
       /\ Armed(m_requestorMap, n) = {}
       /\ <<now, lastCheck[n], lastSend[n], delta[n]>>'
            # <<now, lastCheck[n], lastSend[n], delta[n]>>
       /\ now' - lastSend[n] > 2 * TargetInterval
       => /\ delta'[n] = 0
          /\ lastSend'[n] = now' - 2 * TargetInterval]_vars

\* C25: with a producer faster than the target rate and a subscriber that
\* requests again at once, dispatches go out at the target rate in the long
\* run: each dispatch adds to delta the amount by which it came later than
\* one target interval after the dispatch before it, and delta, which is
\* therefore the time of the last dispatch less one target interval for
\* every dispatch made, stays within one target interval of 0
C25_DispatchRateTracksTarget ==
  /\ [][\A n \in Published :
          imPc[n] = "streaming" /\ lastCnt0'[n] # lastCnt0[n]
          => delta'[n] - delta[n]
               = (lastSend'[n] - lastSend[n]) - TargetInterval]_vars
  /\ [](\A n \in Published :
          delta[n] > -TargetInterval /\ delta[n] < TargetInterval)

\* several frames have gone out while the producer wrote more than one frame
\* for each of them, and the last went out later than three target intervals
\* after the first check
C25_Witness ==
  \E n \in Published :
    /\ lastSend[n] > 3 * TargetInterval
    /\ lastCnt0[n] >= 3
    /\ image[n].cnt0 > lastCnt0[n] + 1
    /\ delta[n] # 0

\* C31: in one dispatch cycle the codec runs once and the header is built
\* once: the message buffer is written only by the encode that ends the
\* preparation of a pass, the pass returns to the encode only through a new
\* lookup, and every frame queued to a recipient is the content of that
\* buffer, so all recipients of a cycle get the same counter, shape, codec
\* selectors and payload length
C31_OneEncodePerCycle ==
  /\ [][\A n \in Published :
          msg'[n] # msg[n]
          => \/ imPc[n] = "encode" /\ imPc'[n] = "send"
             \/ msg'[n] = NoMsg /\ imPc'[n] \notin DispatchPcs]_vars
  /\ [][\A n \in Published :
          imPc'[n] = "encode" /\ imPc[n] # "encode" => imPc[n] = "prep"]_vars
  /\ [][\A n \in Published :
          imPc'[n] = "prep" /\ imPc[n] # "prep" => imPc[n] = "lookup"]_vars
  /\ [][\A s \in Subs :
          Len(inQ'[s]) > Len(inQ[s]) /\ Queued(s).size >= headerSize
          => Queued(s) = msg[imageName[s]]]_vars

\* the second recipient of a cycle has been sent the frame the first was
\* sent, after the producer wrote another frame
C31_Witness ==
  \E n \in Published :
    /\ imPc[n] = "clearLock"
    /\ rid[n] = 2
    /\ \A s \in Subs : inQ[s] # <<>> /\ inQ[s][Len(inQ[s])] = msg[n]
    /\ image[n].cnt0 # msg[n].cnt0

\* C37: the bytes of a frame handed to the transport are not modified while
\* the transport may still be transmitting them: the image thread writes the
\* next frame into the message buffer only when no frame of the stream is
\* still on its way to a subscriber, and a frame on its way is not altered,
\* so that each subscriber receives the frame built for its cycle
C37_BufferStableUntilSent ==
  /\ [][\A n \in Published :
          msg'[n] # msg[n] /\ msg'[n] # NoMsg
          => \A s \in Subs :
               imageName[s] = n
               => \A i \in 1..Len(inQ[s]) : inQ[s][i].size < headerSize]_vars
  /\ [][\A s \in Subs :
          \A i \in 1..Len(inQ[s]) :
            \/ i <= Len(inQ'[s]) /\ inQ'[s][i] = inQ[s][i]
            \/ i > 1 /\ i - 1 <= Len(inQ'[s]) /\ inQ'[s][i - 1] = inQ[s][i]
            \/ i = 1 /\ Len(inQ'[s]) = Len(inQ[s]) - 1
            \/ inQ'[s] = <<>>]_vars

\* C36: a subscriber never receives two frames of one stream with the same
\* frame counter during one run of the source: the frame it processes does
\* not carry the counter of the frame it processed before, and the last-seen
\* counter recorded at the end of a dispatch is the counter in the header of
\* the frame just sent
C36_NoCounterTwice ==
  /\ [][\A s \in Subs :
          /\ subPc[s] = "recv" /\ inQ[s] # <<>> /\ inQ'[s] # inQ[s]
          /\ ~TooShort(Head(inQ[s]))
          /\ sink[s].gen = Head(inQ[s]).gen
          => Head(inQ[s]).cnt0 # sink[s].cnt0]_vars
  /\ [][\A n \in Published :
          imPc[n] = "clear" /\ imPc'[n] = "streaming"
          => lastCnt0'[n] = msg[n].cnt0]_vars

\* C39 as stated: a pass of the streaming loop that dispatches nothing (the
\* counter has not moved, the frame-rate check rejected, or no subscriber
\* has its flag set) sleeps before the next pass: the clock moves on by at
\* least one sleep
C39_IdlePassSleeps ==
  [][\A n \in Published :
       /\ GovLoop(n)
       /\ <<now, lastCheck[n], lastSend[n], delta[n]>>'
            # <<now, lastCheck[n], lastSend[n], delta[n]>>
       /\ lastCnt0'[n] = lastCnt0[n]
       /\ m_requestorMap' = m_requestorMap
       => now' >= now + 1]_vars

\* subscriber s has received a frame of the stream it asks for and waits for
\* the next: its request has left its socket, the router has processed it,
\* and nothing is on its way to s
WaitsRouted(s) ==
  /\ subPc[s] = "recv"
  /\ sink[s].opened /\ sink[s].cnt0 >= 0
  /\ outstanding[s] >= 1
  /\ reqQ[s] = <<>>
  /\ inQ[s] = <<>>
  /\ request[1] # RidOf(s)
  /\ m_server /\ ~m_timeToDie

\* C32 as stated: the request a subscriber sends after it received frame N
\* is not lost to the clear that follows the send of frame N: once the
\* router has processed it, the subscriber's flag is set until a frame is
\* sent to it (or it is a recipient yet to be served in the running pass)
C32_RearmSurvivesClear ==
  \A s \in Subs :
    WaitsRouted(s) /\ imageName[s] \in Published /\ imPc[imageName[s]] \in StreamingPcs
    => \/ RidOf(s) \in Armed(m_requestorMap, imageName[s])
       \/ LET n == imageName[s] IN
            /\ imPc[n] \in {"prep", "encode", "send"}
            /\ \E i \in rid[n]..Len(rids[n]) : rids[n][i] = RidOf(s)

\* the entry of routing id r is that of a socket that is closed, no flag in
\* it is set, and no request from r is left to be processed
StaleEntry(r) ==
  /\ r \in DOMAIN m_requestorMap
  /\ ~Live(r)
  /\ \A y \in DOMAIN m_requestorMap[r] : ~m_requestorMap[r][y]
  /\ \A i \in 1..Len(reqQ[r[1]]) : reqQ[r[1]][i][1] # r
  /\ request[1] # r

\* C34 as stated: the entry of a subscriber that has disconnected is removed
\* from the map in the end, also when none of its flags is set (unless the
\* server is told to stop)
C34_StaleEntriesRemoved ==
  \A r \in Rids :
    StaleEntry(r) ~> (r \notin DOMAIN m_requestorMap \/ m_timeToDie)

\* C35 as stated: with several image threads, one raising of the reset flag
\* is seen by every thread that is in its streaming loop: the flag is not
\* cleared (by a thread that enters its open loop again) while another
\* thread is still in its streaming loop; and a thread in its open loop is
\* not affected by the flag: it does not end on it
C35_ResetSeenByAll ==
  /\ [][m_restart /\ ~m_restart'
          => \A n \in StreamNames : imPc[n] \notin StreamingPcs]_vars
  /\ [][\A n \in StreamNames :
          imPc[n] = "opening" /\ imPc'[n] = "returned" => m_timeToDie]_vars

\* C38 as stated: a routing id whose entry was erased because a send to it
\* failed has no entry again until the router processes a new request from
\* it: an entry comes into being only by the router's step, never by the
\* clear another image thread makes after its own send to that id
C38_EntryOnlyByRequest ==
  [][\A r \in Rids :
       r \notin DOMAIN m_requestorMap /\ r \in DOMAIN m_requestorMap'
       => srvPc = "set" /\ request[1] = r]_vars

\* C33: to no routing id are more messages (frames and hangups) of a stream
\* sent than the router has processed requests of that id for that stream
C33_SendsWithinRequests ==
  \A r \in Rids, n \in StreamNames : unserved[r][n] >= 0

\* the hangup has just been sent to a subscriber that received a frame
\* before: both its requests are used up
C33_Witness ==
  \E n \in Published, s \in Subs :
    /\ imPc[n] = "hClearLock"
    /\ sendResult[n] = "ok"
    /\ rids[n][rid[n]] = RidOf(s)
    /\ sink[s].cnt0 >= 0
    /\ unserved[RidOf(s)][n] = 0

====
